---- MODULE Spec2Model ----
(***************************************************************************)
(* Process supervision and watchdog of the miner GUI: the closures of      *)
(* main() that start, stop and watch the worker (xmrig) and the node       *)
(* (geth), and the goroutines they start.                                  *)
(*                                                                         *)
(* One step is one critical section of procMu, one callback of the UI      *)
(* goroutine, or one wake-up of a goroutine.  A goroutine may be late by   *)
(* any amount: an expired sleep or a pending tick enables a step, it does  *)
(* not force it.                                                           *)
(*                                                                         *)
(* Time is counted in units of UnitSec seconds.  The timestamps of the     *)
(* program (lastJobAt, minerStartedAt, outageStart) are kept as ages, the  *)
(* value time.Since(x) has now, capped one unit above the threshold they   *)
(* are compared with; a sleep is kept as the units left of it.  The 2 s    *)
(* ticker of a watchdog session fires many times per unit, so a tick is    *)
(* always there to be taken.                                               *)
(*                                                                         *)
(* Every exec.Cmd, every watchdog session and every goroutine has a slot   *)
(* of its own, used once; the domains of the slot variables are the        *)
(* number of them a run may create.  The two roles share procMu and the    *)
(* queue of the UI goroutine and nothing else, so a run has one role in    *)
(* use: either xmrig was found and the node is disabled, or the node is    *)
(* enabled and xmrig was not found.                                        *)
(*                                                                         *)
(* The worker log (appendMinerLog, the channel of log events and its       *)
(* consumer, the ring) and the poller (pollStats with its callbacks) are   *)
(* followed in runs of their own: SpecLogging, SpecPolling and, for the    *)
(* ring alone, SpecRing.  The two programs of the repository differ there: *)
(* build tells whether main() is the one of interrupt_windows.go (xmrig)   *)
(* or the one of main.go (ethminer).                                       *)
(*                                                                         *)
(* The other parts have runs of their own as well: the log across two      *)
(* starts (SpecRelog), the database prompt of the node (SpecIssue), the    *)
(* share counter of onStat (SpecAccept), the remap of onStat and the       *)
(* device table (SpecRemap, SpecTable), the state a job line sets          *)
(* (SpecJob), procMu with the start of the worker taken call by call       *)
(* (SpecMutex), the operator changing the worker's settings between        *)
(* starts (SpecParams), and the node started in mining mode with the       *)
(* goroutines of autoStartMiningService (SpecAuto).                        *)
(***************************************************************************)
EXTENDS Integers, Sequences, FiniteSets, TLC

\* ---------------------------------------------------------------- bounds
\* slots of the worker role: processes, watchdog sessions, forced-kill goroutines
MaxProcs == 2
MaxSessions == 1
MaxTimers == 1
\* slots of the node role: processes, start goroutines, forced-kill
\* goroutines, reset goroutines
MaxNodeProcs == 2
MaxNodeStarts == 2
MaxNodeTimers == 2
MaxResets == 1
\* sessions of a run in which the operator stops and starts again
RaceSessions == 2
\* processes and forced-kill goroutines of a run without jobs
QuietProcs == 3
QuietTimers == 3
\* seconds per unit of time
UnitSec == 60
\* watchdogSettings of the sessions, in units
NoJobTimeout == 1
RestartDelay == 1
RetryWindow == 3

\* lines of the worker log in the runs that do not follow the log
LogCap == 1
\* lines of the worker log, events the channel holds and lines a pipe
\* carries in the runs that follow the log
LogLines == 3
LogProcs == 1
\* lines of the worker log and worker processes in the runs that follow
\* the poller
PollLogLines == 2
PollProcs == 1
\* worker processes in the specification of procMu
MutexProcs == 1
\* the contents the form of the worker may have
MaxArgs == 2
\* the highest device index, and the longest per-device array of a Stat
MaxDevice == 2
MaxArray == 2
\* worker processes in the specification of the share counter
AcceptProcs == 1
ChanCap == 2
MaxLines == 2
\* the runs that follow the database issue prompt: seconds per step of
\* their clock, prompts raised and not answered, and the slots of the node
\* role
IssueStepSec == 15
MaxPrompts == 2
IssueNodeProcs == 1
IssueNodeStarts == 1
IssueNodeTimers == 1
IssueResets == 1
AutoNodeProcs == 2
AutoNodeStarts == 3
MaxServed == 2
ReadyStreak == 2
\* the worker processes of a run that follows the log over a restart
RelogProcs == 2
\* the largest maxLines given to newRingLogs where the ring is followed
\* alone, and the most lines appended to it between two Clears
RingMaxLines == 3
RingMaxAppends == 5

\* ------------------------------------------------------ program constants
MinerGraceSec == 10
NodeGraceSec == 60
ExitWaitSec == 25
ResetWaitSec == 90
\* appendNodeLog: issueWindow in seconds, issueThreshold
IssueWindowSec == 45
IssueThreshold == 3
\* pollStats of main.go: detailEvery, difficultyEvery
DetailEvery == 3
DifficultyEvery == 5

\* a sleep of sec seconds is over after this many units
Units(sec) == (sec + UnitSec - 1) \div UnitSec

Min(a, b) == IF a < b THEN a ELSE b
Max(a, b) == IF a > b THEN a ELSE b

\* the age of a timestamp one unit later; -1 is the zero timestamp
Older(age, cap) == IF age = -1 THEN -1 ELSE Min(age + 1, cap)
\* what is left of a sleep one unit later
Less(left) == Max(left - 1, 0)

VARIABLES
    xmrigFound,         \* xmrigErr == nil
    nodeEnabled,        \* nodeEnabledCheck.Checked
    minerCmd,           \* slot of the process minerCmd refers to, 0 = nil
    pollCancel,         \* slot whose poll context pollCancel cancels, 0 = nil
    mproc,              \* worker processes and their wait goroutines
    mtimers,            \* forced-kill goroutines of stopMinerWithOrigin
    watchdogCancel,     \* session whose cancel func is registered, 0 = nil
    watchdogRestarting, \* atomic.Bool
    wd,                 \* watchdog session goroutines
    lastJobAge,         \* lastJobAt, as an age
    minerStartedAge,    \* minerStartedAt, as an age
    cfgWatchdogEnabled, \* cfg.WatchdogEnabled
    uiRunning,          \* last setRunningUI argument: stopBtn enabled, startBtn disabled
    opStopped,          \* an operator stop has returned and no operator start followed
    nodeCmd,            \* slot of the process nodeCmd refers to, 0 = nil
    nodeCancel,         \* slot of the process whose context nodeCancel cancels, 0 = nil
    autoMining,         \* nodeCtx, the cancelled contexts, the autoStartMiningService goroutines
    nproc,              \* node processes and their wait goroutines
    ntimers,            \* forced-kill goroutines of stopNode
    nstart,             \* goroutines of startNodeAsync running startNodeWithSettings
    nreset,             \* goroutines of doReset
    nodeStartBtn,       \* nodeStartBtn is enabled
    nodeStopBtn,        \* nodeStopBtn is enabled
    uiQueue,            \* functions handed to fyne.Do, not yet run
    uiPc,               \* where the UI goroutine is inside a handler
    waitingForStats,    \* atomic.Bool: no snapshot since the last start
    lastAccepted,       \* atomic.Int64: accepted count of the last snapshot
    build,              \* which main() is built: "xmrig" or "ethminer"
    cfgArgs,            \* the fields of cfg the worker is started with
    poll,               \* pollStats goroutines, one per worker process
    snapshot,           \* accepted count of the snapshot each pollStats holds
    minerLogBuf,        \* the ringLogs of the worker log
    minerLogEvents,     \* the buffered channel of logEvent
    streams,            \* lines read so far from the pipes of each process
    appended,           \* lines given to Append since the last Clear
    nodeChainIssue,     \* nodeChainIssueDialogShown, Count and FirstAt; the prompts
    minerDeviceMap,     \* the device selection of the last start, local index -> device index
    deviceLabelByIndex, \* the device indexes that have a label
    logSensors,         \* device index -> sensors read from the worker log
    stat,               \* the Stat a pollStats hands to onStat, and where it is
    statsRows,          \* the rows of the device table
    currentJobBlock,    \* atomic.Int64: height of the last job line
    jobDifficulty,      \* atomic.Value: the difficulty text shown
    procMu              \* sync.Mutex: who holds it, and the blocking call the holder is in

confVars == <<xmrigFound, nodeEnabled>>
supVars == <<minerCmd, pollCancel, minerDeviceMap, mproc, mtimers>>
wdVars == <<watchdogCancel, watchdogRestarting, wd>>
jobVars == <<currentJobBlock, jobDifficulty>>
ageVars == <<lastJobAge, minerStartedAge, jobVars>>
uiVars == <<uiRunning, waitingForStats, lastAccepted, uiQueue, uiPc>>
minerVars == <<supVars, wdVars, ageVars, cfgWatchdogEnabled, uiRunning, waitingForStats, lastAccepted, opStopped>>
nodeVars == <<nodeCmd, nodeCancel, autoMining, nproc, ntimers, nstart, nreset, nodeStartBtn, nodeStopBtn>>
logVars == <<minerLogBuf, minerLogEvents, streams, appended>>
dispVars == <<deviceLabelByIndex, logSensors, stat, statsRows>>
auxVars == <<build, cfgArgs, procMu, dispVars, poll, snapshot, logVars, nodeChainIssue>>
vars == <<confVars, minerVars, nodeVars, uiQueue, uiPc, auxVars>>

Procs == DOMAIN mproc
Sessions == DOMAIN wd
TimerIds == DOMAIN mtimers
NodeProcs == DOMAIN nproc
NodeStarts == DOMAIN nstart
NodeTimerIds == DOMAIN ntimers
Resets == DOMAIN nreset

FreeTimer == [st |-> "free", cmd |-> 0, left |-> 0]
GoneTimer == [st |-> "gone", cmd |-> 0, left |-> 0]
\* a watchdog session; recovered tells that a job it had not seen has reset
\* a restart count above 0, and log is the last line the session has given
\* to appendMinerLog: "enabled", "attempt" (Restarting miner (attempt n)),
\* "giveup" (retry window reached), or the error of "Restart failed: %v":
\* "error", "AlreadyRunning" or "cancelled"; args is what cfg held at
\* the last start of the operator that started the worker, and used what
\* it held when the session last called startMinerWithOrigin and found no
\* worker running (0: not yet)
FreeSession == [st |-> "free", pc |-> "none", cancelled |-> FALSE, seen |-> FALSE,
                outage |-> -1, restartCount |-> 0, left |-> 0, res |-> "none", recovered |-> FALSE,
                log |-> "none", args |-> 0, used |-> 0]
\* the goroutine of a session has returned
Ended == [FreeSession EXCEPT !.st = "ended"]
FreeStart == [st |-> "free", cmd |-> 0]
GoneStart == [st |-> "gone", cmd |-> 0]
FreeReset == [st |-> "free", left |-> 0]
GoneReset == [st |-> "gone", left |-> 0]

\* no autoStartMiningService goroutine: st is "none", "loop", "returned" or
\* "panic" (a nil context), ctx the slot of the process whose context it
\* was given, last what its last iteration did: "failed" check, "ready"
\* check, miner_start "refused" or "started"
FreeAuto == [st |-> "none", ctx |-> 0, readyStreak |-> 0, last |-> "none"]
\* what a detail query returns, as far as pollStats looks at it: whether
\* there are sensors or hashes in it, and whether its difficulty is not 0
DetailResults == [sensors : BOOLEAN, difficulty : BOOLEAN]
\* the zero value of detailSnapshot
NoDetail == [sensors |-> FALSE, difficulty |-> FALSE]

\* pollStats before its first tick: the counters of main.go, no detail
\* cached; gap counts the ticks since the last detail query, out is what
\* the tick in progress has handed to onStat and onErr, fetched is the
\* result of the last detail query that succeeded and got tells that there
\* has been one
FreePoll == [pc |-> "select", detailTick |-> DetailEvery - 1,
             difficultyTick |-> DifficultyEvery - 1, cached |-> NoDetail,
             gap |-> 0, out |-> <<>>, fetched |-> NoDetail, got |-> FALSE]

\* a text that is a number and what follows it, as its parts: the number
\* in hundredths, the separator, the suffix and the unit; "1.23K" is
\* Text(123, "", "K", "") and "1.23 KH" is Text(123, " ", "K", "H")
Text(hundredths, sep, suffix, unit) ==
    [hundredths |-> hundredths, sep |-> sep, suffix |-> suffix, unit |-> unit]
\* the empty string
NoText == Text(-1, "", "", "")

\* formatDifficulty(diff) for a whole number diff: "" for diff <= 0, else
\* fmt.Sprintf("%.2f %sH", ...) after at most six divisions by 1000
Suffixes == <<"", "K", "M", "G", "T", "P", "E">>
RECURSIVE Scaled(_, _)
Scaled(diff, idx) ==
    IF diff[1] >= 1000 * diff[2] /\ idx < Len(Suffixes) - 1
    THEN Scaled(<<diff[1], diff[2] * 1000>>, idx + 1)
    ELSE <<diff, idx>>
formatDifficulty(diff) ==
    IF diff <= 0 THEN NoText
    ELSE LET r == Scaled(<<diff, 1>>, 0)
             num == r[1][1]
             den == r[1][2]
         IN Text((200 * num + den) \div (2 * den), " ", Suffixes[r[2] + 1], "H")

\* a job line of the worker: the difficulty token and the height
JobLine(diff, height) == [diff |-> diff, height |-> height]
\* "new job from ... diff 1.23K algo ... height 4242"
UsualJob == JobLine(Text(123, "", "K", ""), 4242)

\* cfg.CPUAffinity of the contents the form may have: the first has no
\* device selected, the others select devices 0 and MaxDevice
CPUAffinity(args) == IF args = 1 THEN <<>> ELSE <<0, MaxDevice>>

\* procMu when nobody holds it; at is how far a holder has come
Unlocked == [holder |-> "none", io |-> "none", at |-> "none"]

\* the share counter of a pollStats goroutine: accepted is Stat.Accepted of
\* the summary the tick in progress holds, prev that of the snapshot it
\* handed to onStat before (0 before the first)
NoSnapshot == [accepted |-> 0, prev |-> 0]

\* the pipes of a worker process, each read by its own streamLines goroutine
Pipes == {"stdout", "stderr"}

\* ------------------------------------------------------------------ ringLogs
\* the zero value of a slot of buf
NoLine == <<>>

\* newRingLogs(maxLines): buf is indexed from 0
newRingLogs(maxLines) ==
    [buf |-> [i \in 0..(Max(maxLines, 1) - 1) |-> NoLine], start |-> 0, size |-> 0]

\* len(r.buf)
ringLogsCap(r) == Cardinality(DOMAIN r.buf)

\* (r *ringLogs) Clear()
ringLogsClear(r) == [buf |-> [i \in DOMAIN r.buf |-> NoLine], start |-> 0, size |-> 0]

\* an Append that overwrites the oldest slot of a full ring and leaves
\* start where it is
ringLogsAppendInPlace(r, line) ==
    IF ringLogsCap(r) = 0 THEN r
    ELSE IF r.size < ringLogsCap(r)
    THEN [r EXCEPT !.buf[(r.start + r.size) % ringLogsCap(r)] = line, !.size = @ + 1]
    ELSE [r EXCEPT !.buf[r.start] = line]

\* (r *ringLogs) Append(line)
ringLogsAppend(r, line) ==
    IF ringLogsCap(r) = 0 THEN r
    ELSE IF r.size < ringLogsCap(r)
    THEN [r EXCEPT !.buf[(r.start + r.size) % ringLogsCap(r)] = line, !.size = @ + 1]
    ELSE [r EXCEPT !.buf[r.start] = line, !.start = (@ + 1) % ringLogsCap(r)]

\* (r *ringLogs) Len()
ringLogsLen(r) == r.size

\* (r *ringLogs) Snapshot()
ringLogsSnapshot(r) ==
    IF r.size = 0 \/ ringLogsCap(r) = 0 THEN <<>>
    ELSE [i \in 1..r.size |-> r.buf[(r.start + (i - 1)) % ringLogsCap(r)]]

\* the worker log and its channel before anything is written
InitLog(maxLines) ==
    /\ minerLogBuf = newRingLogs(maxLines)
    /\ minerLogEvents = <<>>
    /\ appended = <<>>

\* issueWindow in steps of the clock of the prompt
IssueWindow == IssueWindowSec \div IssueStepSec

\* nodeChainIssueDialogShown, nodeChainIssueCount (not counted beyond the
\* threshold) and nodeChainIssueFirstAt (as an age in steps, -1 for zero);
\* open counts the prompts raised and not answered, dialogs those of them
\* that are on the screen, accepted is the reset started from a prompt and
\* prev holds the ages of the last two matching lines
NoIssue == [shown |-> FALSE, count |-> 0, first |-> -1,
            open |-> 0, dialogs |-> 0, accepted |-> 0, prev |-> <<-1, -1>>]

\* the node role after main() has built the window, with room for np node
\* processes, ng start goroutines, nt forced-kill goroutines and nr resets
InitNodeMode(np, ng, nt, nr, mine) ==
    /\ nodeCmd = 0
    /\ nodeCancel = 0
    /\ autoMining = [mine |-> mine, nodeCtx |-> 0, done |-> {},
                     g |-> [p \in 1..np |-> FreeAuto], served |-> [p \in 1..np |-> 0]]
    /\ nproc = [p \in 1..np |-> "free"]
    /\ ntimers = [t \in 1..nt |-> FreeTimer]
    /\ nstart = [g \in 1..ng |-> FreeStart]
    /\ nreset = [r \in 1..nr |-> FreeReset]
    /\ nodeStartBtn = nodeEnabled
    /\ nodeStopBtn = FALSE
    /\ nodeChainIssue = NoIssue

\* the node role in the mode the general specifications follow: the node
\* is not started with the mining service, and autoStartMiningService is
\* never launched
InitNodeWith(np, ng, nt, nr) == InitNodeMode(np, ng, nt, nr, FALSE)

\* the worker role and the UI goroutine after main() has built the window,
\* with room for np worker processes, ns sessions and nt forced-kill
\* goroutines
InitWorkerWith(np, ns, nt) ==
    /\ minerCmd = 0
    /\ pollCancel = 0
    /\ mproc = [p \in 1..np |-> "free"]
    /\ poll = [p \in 1..np |-> FreePoll]
    /\ procMu = Unlocked
    /\ snapshot = [p \in 1..np |-> NoSnapshot]
    /\ streams = [x \in (1..np) \X Pipes |-> 0]
    /\ mtimers = [t \in 1..nt |-> FreeTimer]
    /\ watchdogCancel = 0
    /\ watchdogRestarting = FALSE
    /\ wd = [s \in 1..ns |-> FreeSession]
    /\ lastJobAge = -1
    /\ currentJobBlock = 0
    /\ jobDifficulty = NoText
    /\ minerStartedAge = -1
    /\ cfgWatchdogEnabled = FALSE
    /\ cfgArgs = 1
    /\ uiRunning = FALSE
    /\ waitingForStats = FALSE
    /\ lastAccepted = 0
    /\ opStopped = FALSE
    /\ uiQueue = <<>>
    /\ uiPc = "idle"

\* a Stat without per-device values; at tells where the Stat is: with
\* pollStats ("poller"), in statCopy after the remap of onStat ("onStat"),
\* or shown by updateStatsTable ("table")
NoStat == [at |-> "poller", PerGPU_KHs |-> <<>>, Temps |-> <<>>, Fans |-> <<>>, PerGPU_Power |-> <<>>]

\* no device selected, no label, no sensors read from the log, no row
InitDisplay ==
    /\ minerDeviceMap = <<>>
    /\ deviceLabelByIndex = {}
    /\ logSensors = <<>>
    /\ stat = NoStat
    /\ statsRows = <<>>

\* the state after main() has built the window, with room for np worker
\* processes, ns sessions and nt forced-kill goroutines
InitWith(np, ns, nt) ==
    /\ InitWorkerWith(np, ns, nt)
    /\ InitDisplay
    /\ InitNodeWith(MaxNodeProcs, MaxNodeStarts, MaxNodeTimers, MaxResets)

Init ==
    /\ xmrigFound \in BOOLEAN
    /\ nodeEnabled = ~xmrigFound
    /\ InitWith(MaxProcs, MaxSessions, MaxTimers)
    /\ build = "xmrig"
    /\ InitLog(LogCap)

\* the next unused slot
FreeIn(f, S) == {x \in S : f[x] = "free"}
FreeRec(f, S) == {x \in S : f[x].st = "free"}
Lowest(S) == CHOOSE x \in S : \A y \in S : x <= y

\* ------------------------------------------------- ProcessSupervisor: worker
\* the guard of startMinerWithOrigin and stopMinerWithOrigin:
\* minerCmd != nil && minerCmd.Process != nil
minerRunning == minerCmd # 0

\* what the environment does to a start: "early" is a failure before the
\* timestamps are stored (no free port, bad pool URL, node or RPC not
\* there), "spawn" is a failure of cmd.Start
StartOutcomes == {"ok", "early", "spawn"}

\* what startMinerWithOrigin returns
StartResult(oc) ==
    IF minerRunning THEN "AlreadyRunning"
    ELSE IF oc = "ok" THEN "ok" ELSE "error"

\* startMinerWithOrigin without the test of minerCmd
startMinerUnguarded(origin, oc) ==
    IF oc = "early"
       THEN UNCHANGED <<minerCmd, pollCancel, minerDeviceMap, mproc, lastJobAge, jobVars, minerStartedAge, uiRunning, waitingForStats, lastAccepted>>
       ELSE /\ minerDeviceMap' = CPUAffinity(cfgArgs')
            /\ minerStartedAge' = 0
            /\ lastJobAge' = -1
            /\ currentJobBlock' = 0
            /\ jobDifficulty' = NoText
            /\ IF oc = "spawn"
               THEN UNCHANGED <<minerCmd, pollCancel, mproc, uiRunning, waitingForStats, lastAccepted>>
               ELSE /\ FreeIn(mproc, Procs) # {}
                    /\ LET p == Lowest(FreeIn(mproc, Procs)) IN
                        /\ minerCmd' = p
                        /\ pollCancel' = p
                        /\ mproc' = [mproc EXCEPT ![p] = "running"]
                    /\ uiRunning' = TRUE
                    /\ waitingForStats' = TRUE
                    /\ lastAccepted' = 0

\* startMinerWithOrigin that keeps the handle of a process that did not start
startMinerSpawnLeak(origin, oc) ==
    IF minerRunning \/ oc = "early"
       THEN UNCHANGED <<minerCmd, pollCancel, minerDeviceMap, mproc, lastJobAge, jobVars, minerStartedAge, uiRunning, waitingForStats, lastAccepted>>
       ELSE /\ minerDeviceMap' = CPUAffinity(cfgArgs')
            /\ minerStartedAge' = 0
            /\ lastJobAge' = -1
            /\ currentJobBlock' = 0
            /\ jobDifficulty' = NoText
            /\ FreeIn(mproc, Procs) # {}
            /\ LET p == Lowest(FreeIn(mproc, Procs)) IN
                 /\ minerCmd' = p
                 /\ pollCancel' = p
                 /\ mproc' = IF oc = "spawn" THEN mproc ELSE [mproc EXCEPT ![p] = "running"]
            /\ uiRunning' = (oc = "ok" \/ uiRunning)
            /\ waitingForStats' = (oc = "ok" \/ waitingForStats)
            /\ lastAccepted' = IF oc = "ok" THEN 0 ELSE lastAccepted

\* startMinerWithOrigin from procMu.Lock() to setRunningUI(true), without
\* the watchdog session a start of the operator may arm
startMinerWithOrigin(origin, oc) ==
    IF minerRunning \/ oc = "early"
       THEN UNCHANGED <<minerCmd, pollCancel, minerDeviceMap, mproc, lastJobAge, jobVars, minerStartedAge, uiRunning, waitingForStats, lastAccepted>>
       ELSE /\ minerDeviceMap' = CPUAffinity(cfgArgs')
            /\ minerStartedAge' = 0
            /\ lastJobAge' = -1
            /\ currentJobBlock' = 0
            /\ jobDifficulty' = NoText
            /\ IF oc = "spawn"
               THEN UNCHANGED <<minerCmd, pollCancel, mproc, uiRunning, waitingForStats, lastAccepted>>
               ELSE /\ FreeIn(mproc, Procs) # {}
                    /\ LET p == Lowest(FreeIn(mproc, Procs)) IN
                        /\ minerCmd' = p
                        /\ pollCancel' = p
                        /\ mproc' = [mproc EXCEPT ![p] = "running"]
                    /\ uiRunning' = TRUE
                    /\ waitingForStats' = TRUE
                    /\ lastAccepted' = 0

\* startMinerUser, first step: the UI goroutine takes procMu in
\* startMinerWithOrigin
startMinerLock ==
    /\ uiPc = "idle"
    /\ xmrigFound
    /\ ~uiRunning
    /\ procMu = Unlocked
    /\ procMu' = [holder |-> "start", io |-> "none", at |-> "locked"]
    /\ uiPc' = "start"
    /\ UNCHANGED <<build, cfgArgs, dispVars, poll, snapshot, logVars, nodeChainIssue, confVars, minerVars, nodeVars, uiQueue>>

\* the blocking calls of startMinerWithOrigin between Lock and Unlock, in
\* their order: net.DialTimeout to the RPC host, ensureLinuxMSRAccess
\* (getcap, pkexec setcap) and cmd.Start
StartIo == <<"dial", "grant", "spawn">>
IoAfter(at) == {StartIo[i] : i \in {j \in DOMAIN StartIo :
                    \A k \in DOMAIN StartIo : StartIo[k] = at => k < j}}

\* the UI goroutine enters one of the blocking calls; the dial is made in
\* the local RPC mode and the grant with EnableMSR and AutoGrantMSR only,
\* so either may be left out
startMinerIo(kind) ==
    /\ procMu.holder = "start"
    /\ procMu.io = "none"
    /\ ~minerRunning
    /\ kind \in IoAfter(procMu.at)
    /\ procMu' = [procMu EXCEPT !.io = kind]
    /\ UNCHANGED <<build, cfgArgs, dispVars, poll, snapshot, logVars, nodeChainIssue, confVars, minerVars, nodeVars, uiQueue, uiPc>>

\* the blocking call returns
startMinerIoDone ==
    /\ procMu.holder = "start"
    /\ procMu.io # "none"
    /\ procMu' = [procMu EXCEPT !.io = "none", !.at = procMu.io]
    /\ UNCHANGED <<build, cfgArgs, dispVars, poll, snapshot, logVars, nodeChainIssue, confVars, minerVars, nodeVars, uiQueue, uiPc>>

\* startMinerUser, last step: the stores of startMinerWithOrigin and
\* procMu.Unlock(); a start that fails early returns before cmd.Start, the
\* others after it
startMinerUnlock(oc) ==
    /\ procMu.holder = "start"
    /\ procMu.io = "none"
    /\ minerRunning \/ (oc = "early" <=> procMu.at # "spawn")
    /\ cfgWatchdogEnabled' = FALSE
    /\ UNCHANGED cfgArgs
    /\ startMinerWithOrigin("user", oc)
    /\ opStopped' = FALSE
    /\ procMu' = Unlocked
    /\ uiPc' = "idle"
    /\ UNCHANGED <<build, cfgArgs, dispVars, poll, snapshot, logVars, nodeChainIssue, confVars, nodeVars, mtimers, wdVars, uiQueue>>

\* startWatchdogSession: no second session while one is registered (the
\* session that stays is told what the operator has started the worker
\* with)
startWatchdogSession ==
    IF watchdogCancel # 0
    THEN /\ UNCHANGED watchdogCancel
         /\ wd' = [wd EXCEPT ![watchdogCancel].args = cfgArgs']
    ELSE /\ FreeRec(wd, Sessions) # {}
         /\ LET s == Lowest(FreeRec(wd, Sessions)) IN
             /\ watchdogCancel' = s
             /\ wd' = [wd EXCEPT ![s] = [FreeSession EXCEPT !.st = "live", !.pc = "select",
                                                          !.log = "enabled", !.args = cfgArgs']]

\* stopWatchdogSession that forgets the cancel func without calling it
stopWatchdogSessionNoCancel(self, pc) ==
    /\ watchdogCancel' = 0
    /\ watchdogRestarting' = FALSE
    /\ wd' = [x \in Sessions |-> [wd[x] EXCEPT !.pc = IF x = self THEN pc ELSE @]]

\* stopWatchdogSession, called by the goroutine of session self (0: by the
\* UI goroutine): unregister, clear the flag, cancel the registered context
stopWatchdogSession(self, pc) ==
    /\ watchdogCancel' = 0
    /\ watchdogRestarting' = FALSE
    /\ wd' = [x \in Sessions |->
                [wd[x] EXCEPT !.cancelled = @ \/ x = watchdogCancel,
                              !.pc = IF x = self THEN pc ELSE @]]

\* stopMinerWithOrigin after the origin test: under procMu, interrupt the
\* process minerCmd refers to and start its forced-kill goroutine
interruptMiner ==
    IF ~minerRunning
    THEN UNCHANGED mtimers
    ELSE /\ FreeRec(mtimers, TimerIds) # {}
         /\ mtimers' = [mtimers EXCEPT ![Lowest(FreeRec(mtimers, TimerIds))] =
                [st |-> "sleep", cmd |-> minerCmd, left |-> Units(MinerGraceSec)]]

\* startMinerUser: the Start button, with what the form holds; saveFromUI
\* stores it in cfg before startMinerWithOrigin takes procMu
startMinerUserWith(args, enabled, oc) ==
    /\ uiPc = "idle"
    /\ xmrigFound
    /\ ~uiRunning
    /\ cfgArgs' = args
    /\ cfgWatchdogEnabled' = enabled
    /\ startMinerWithOrigin("user", oc)
    /\ IF StartResult(oc) = "ok" /\ enabled
       THEN startWatchdogSession
       ELSE UNCHANGED <<watchdogCancel, wd>>
    /\ opStopped' = FALSE
    /\ UNCHANGED <<build, procMu, dispVars, poll, snapshot, logVars, nodeChainIssue>>
    /\ UNCHANGED <<confVars, nodeVars, mtimers, watchdogRestarting, uiQueue, uiPc>>

\* startMinerUser with the form as it was at the last start
startMinerUser(enabled, oc) == startMinerUserWith(cfgArgs, enabled, oc)

\* stopMinerUser, first half: stopMinerWithOrigin(minerStopOriginUser) up to
\* the return of stopWatchdogSession()
stopMinerUserCancel ==
    /\ uiPc = "idle"
    /\ uiRunning
    /\ stopWatchdogSession(0, "none")
    /\ uiPc' = "stop"
    /\ UNCHANGED <<auxVars, confVars, nodeVars, supVars, ageVars, cfgWatchdogEnabled, uiRunning, waitingForStats, lastAccepted, uiQueue, opStopped>>

\* stopMinerUser, second half: the critical section of stopMinerWithOrigin
stopMinerUserInterrupt ==
    /\ uiPc = "stop"
    /\ interruptMiner
    /\ uiPc' = "idle"
    /\ opStopped' = TRUE
    /\ UNCHANGED <<auxVars, confVars, nodeVars, minerCmd, pollCancel, minerDeviceMap, mproc, wdVars, ageVars, cfgWatchdogEnabled,
                   uiRunning, waitingForStats, lastAccepted, uiQueue>>

\* ------------------------------------------------ the child and its waiter
\* the process ends: on its own, or after an interrupt
minerExits(p) ==
    /\ mproc[p] = "running"
    /\ mproc' = [mproc EXCEPT ![p] = "exited"]
    /\ UNCHANGED <<auxVars, confVars, nodeVars, minerCmd, pollCancel, minerDeviceMap, mtimers, wdVars, ageVars, cfgWatchdogEnabled,
                   uiVars, opStopped>>

\* the critical section of the wait goroutine without the poller
minerWaitClearKeepPoller(p) ==
    /\ mproc[p] = "exited"
    /\ minerCmd' = 0
    /\ minerDeviceMap' = <<>>
    /\ UNCHANGED pollCancel
    /\ mproc' = [mproc EXCEPT ![p] = "reaped"]
    /\ UNCHANGED <<auxVars, confVars, nodeVars, mtimers, wdVars, ageVars, cfgWatchdogEnabled, uiVars, opStopped>>

\* wait goroutine: cmd.Wait() has returned; the critical section
minerWaitClear(p) ==
    /\ mproc[p] = "exited"
    /\ minerCmd' = 0
    /\ minerDeviceMap' = <<>>
    /\ pollCancel' = 0
    /\ mproc' = [mproc EXCEPT ![p] = "reaped"]
    /\ UNCHANGED <<auxVars, confVars, nodeVars, mtimers, wdVars, ageVars, cfgWatchdogEnabled, uiVars, opStopped>>

\* a wait goroutine that starts the worker again after the exit
minerWaitNotifyRespawn(p) ==
    /\ mproc[p] = "reaped"
    /\ uiQueue' = Append(uiQueue, <<"stopped", 0>>)
    /\ IF minerRunning \/ FreeIn(mproc, Procs) = {}
       THEN /\ mproc' = [mproc EXCEPT ![p] = "done"]
            /\ UNCHANGED <<minerCmd, pollCancel, minerDeviceMap>>
       ELSE LET q == Lowest(FreeIn(mproc, Procs)) IN
            /\ mproc' = [mproc EXCEPT ![p] = "done", ![q] = "running"]
            /\ minerCmd' = q
            /\ pollCancel' = q
            /\ UNCHANGED minerDeviceMap
    /\ UNCHANGED <<auxVars, confVars, nodeVars, mtimers, wdVars, ageVars, cfgWatchdogEnabled,
                   uiRunning, waitingForStats, lastAccepted, uiPc, opStopped>>

\* wait goroutine: fyne.Do(func() { setRunningUI(false) })
minerWaitNotify(p) ==
    /\ mproc[p] = "reaped"
    /\ uiQueue' = Append(uiQueue, <<"stopped", 0>>)
    /\ mproc' = [mproc EXCEPT ![p] = "done"]
    /\ UNCHANGED <<auxVars, confVars, nodeVars, minerCmd, pollCancel, minerDeviceMap, mtimers, wdVars, ageVars, cfgWatchdogEnabled,
                   uiRunning, waitingForStats, lastAccepted, uiPc, opStopped>>

\* forced-kill goroutine that kills without looking at minerCmd
minerKillCheckAlways(t) ==
    /\ mtimers[t].st = "sleep"
    /\ mtimers[t].left = 0
    /\ mtimers' = [mtimers EXCEPT ![t] = [@ EXCEPT !.st = "kill"]]
    /\ UNCHANGED <<auxVars, confVars, nodeVars, minerCmd, pollCancel, minerDeviceMap, mproc, wdVars, ageVars, cfgWatchdogEnabled,
                   uiVars, opStopped>>

\* forced-kill goroutine: the sleep is over; still := minerCmd == cmd
minerKillCheck(t) ==
    /\ mtimers[t].st = "sleep"
    /\ mtimers[t].left = 0
    /\ mtimers' = [mtimers EXCEPT ![t] =
            IF minerCmd = mtimers[t].cmd THEN [@ EXCEPT !.st = "kill"] ELSE GoneTimer]
    /\ UNCHANGED <<auxVars, confVars, nodeVars, minerCmd, pollCancel, minerDeviceMap, mproc, wdVars, ageVars, cfgWatchdogEnabled,
                   uiVars, opStopped>>

\* a forced-kill goroutine that kills the process of the handle
minerKillCurrent(t) ==
    /\ mtimers[t].st = "kill"
    /\ mtimers' = [mtimers EXCEPT ![t] = GoneTimer]
    /\ mproc' = [q \in Procs |-> IF q = minerCmd /\ mproc[q] = "running" THEN "exited" ELSE mproc[q]]
    /\ UNCHANGED <<auxVars, confVars, nodeVars, minerCmd, pollCancel, minerDeviceMap, wdVars, ageVars, cfgWatchdogEnabled, uiVars,
                   opStopped>>

\* forced-kill goroutine: p.Kill(); a killed process has ended
minerKill(t) ==
    /\ mtimers[t].st = "kill"
    /\ mtimers' = [mtimers EXCEPT ![t] = GoneTimer]
    /\ mproc' = [mproc EXCEPT ![mtimers[t].cmd] = IF @ = "running" THEN "exited" ELSE @]
    /\ UNCHANGED <<auxVars, confVars, nodeVars, minerCmd, pollCancel, minerDeviceMap, wdVars, ageVars, cfgWatchdogEnabled, uiVars,
                   opStopped>>

\* handleLine on a line that matches xmrigJobLine (jobBlockLine in
\* main.go, which has no difficulty): the difficulty token and the height
\* are stored, lastJobAt := now, a value no session has seen yet
handleJobLine(job) ==
    /\ jobDifficulty' = IF build = "xmrig" THEN job.diff ELSE jobDifficulty
    /\ currentJobBlock' = IF job.height > 0 THEN job.height ELSE currentJobBlock
    /\ lastJobAge' = 0
    /\ wd' = [s \in Sessions |-> [wd[s] EXCEPT !.seen = FALSE]]

\* appendMinerLog on a line that matches xmrigJobLine
newJobLine(job) ==
    /\ \E p \in Procs : mproc[p] \in {"running", "exited"}
    /\ handleJobLine(job)
    /\ UNCHANGED <<auxVars, confVars, nodeVars, supVars, watchdogCancel, watchdogRestarting, minerStartedAge,
                   cfgWatchdogEnabled, uiVars, opStopped>>

\* ------------------------------------------------------------------ Watchdog
\* refAt of a tick as an age: lastJobAt, else minerStartedAt, else now
RefAge == IF lastJobAge # -1 THEN lastJobAge
          ELSE IF minerStartedAge # -1 THEN minerStartedAge ELSE 0

\* jobAt != 0 && jobAt != lastSeenJob
FreshJob(s) == lastJobAge # -1 /\ ~wd[s].seen

\* elapsed > settings.NoJobTimeout
Stale == RefAge > NoJobTimeout

\* time.Since(outageStart) after
\* "if outageStart.IsZero() { outageStart = time.Now() }"
OutageAge(s) == IF wd[s].outage = -1 THEN 0 ELSE wd[s].outage

\* settings.RetryWindow > 0 && time.Since(outageStart) > settings.RetryWindow
WindowReached(s) == RetryWindow > 0 /\ OutageAge(s) > RetryWindow

At(s, pc) == wd[s].st = "live" /\ wd[s].pc = pc

\* select { case <-ctx.Done(): return }
watchdogCtxDone(s) ==
    /\ At(s, "select")
    /\ wd[s].cancelled
    /\ wd' = [wd EXCEPT ![s] = Ended]
    /\ UNCHANGED <<auxVars, confVars, nodeVars, supVars, watchdogCancel, watchdogRestarting, ageVars,
                   cfgWatchdogEnabled, uiVars, opStopped>>

\* the tick without the test of the retry window
watchdogTickNoWindow(s) ==
    /\ At(s, "select")
    /\ IF FreshJob(s)
       THEN /\ wd' = [wd EXCEPT ![s].seen = TRUE, ![s].outage = -1, ![s].restartCount = 0,
                                ![s].recovered = @ \/ wd[s].restartCount > 0]
            /\ UNCHANGED watchdogRestarting
       ELSE IF ~Stale
       THEN UNCHANGED <<wd, watchdogRestarting>>
       ELSE IF watchdogRestarting
       THEN /\ wd' = [wd EXCEPT ![s].outage = OutageAge(s)]
            /\ UNCHANGED watchdogRestarting
       ELSE /\ watchdogRestarting' = TRUE
            /\ wd' = [wd EXCEPT ![s].outage = OutageAge(s), ![s].restartCount = @ + 1,
                                ![s].pc = "stop", ![s].log = "attempt"]
    /\ UNCHANGED <<auxVars, confVars, nodeVars, supVars, watchdogCancel, ageVars, cfgWatchdogEnabled, uiVars, opStopped>>

\* the tick without the test for a job it has not seen
watchdogTickNoJob(s) ==
    /\ At(s, "select")
    /\ IF ~Stale
       THEN UNCHANGED <<wd, watchdogRestarting>>
       ELSE IF WindowReached(s)
       THEN /\ wd' = [wd EXCEPT ![s].outage = OutageAge(s), ![s].pc = "giveup", ![s].log = "giveup"]
            /\ UNCHANGED watchdogRestarting
       ELSE IF watchdogRestarting
       THEN /\ wd' = [wd EXCEPT ![s].outage = OutageAge(s)]
            /\ UNCHANGED watchdogRestarting
       ELSE /\ watchdogRestarting' = TRUE
            /\ wd' = [wd EXCEPT ![s].outage = OutageAge(s), ![s].restartCount = @ + 1,
                                ![s].pc = "stop", ![s].log = "attempt"]
    /\ UNCHANGED <<auxVars, confVars, nodeVars, supVars, watchdogCancel, ageVars, cfgWatchdogEnabled, uiVars, opStopped>>

\* the tick that keeps its outage tracking when it sees a new job
watchdogTickKeepsOutage(s) ==
    /\ At(s, "select")
    /\ IF FreshJob(s)
       THEN /\ wd' = [wd EXCEPT ![s].seen = TRUE, ![s].recovered = @ \/ wd[s].restartCount > 0]
            /\ UNCHANGED watchdogRestarting
       ELSE IF ~Stale
       THEN UNCHANGED <<wd, watchdogRestarting>>
       ELSE IF WindowReached(s)
       THEN /\ wd' = [wd EXCEPT ![s].outage = OutageAge(s), ![s].pc = "giveup", ![s].log = "giveup"]
            /\ UNCHANGED watchdogRestarting
       ELSE IF watchdogRestarting
       THEN /\ wd' = [wd EXCEPT ![s].outage = OutageAge(s)]
            /\ UNCHANGED watchdogRestarting
       ELSE /\ watchdogRestarting' = TRUE
            /\ wd' = [wd EXCEPT ![s].outage = OutageAge(s), ![s].restartCount = @ + 1,
                                ![s].pc = "stop", ![s].log = "attempt"]
    /\ UNCHANGED <<auxVars, confVars, nodeVars, supVars, watchdogCancel, ageVars, cfgWatchdogEnabled, uiVars, opStopped>>

\* select { case <-ticker.C: } and the body of the loop down to the call of
\* stopMinerWithOrigin
watchdogTick(s) ==
    /\ At(s, "select")
    /\ IF FreshJob(s)
       THEN /\ wd' = [wd EXCEPT ![s].seen = TRUE, ![s].outage = -1, ![s].restartCount = 0,
                                ![s].recovered = @ \/ wd[s].restartCount > 0]
            /\ UNCHANGED watchdogRestarting
       ELSE IF ~Stale
       THEN UNCHANGED <<wd, watchdogRestarting>>
       ELSE IF WindowReached(s)
       THEN /\ wd' = [wd EXCEPT ![s].outage = OutageAge(s), ![s].pc = "giveup", ![s].log = "giveup"]
            /\ UNCHANGED watchdogRestarting
       ELSE IF watchdogRestarting
       THEN /\ wd' = [wd EXCEPT ![s].outage = OutageAge(s)]
            /\ UNCHANGED watchdogRestarting
       ELSE /\ watchdogRestarting' = TRUE
            /\ wd' = [wd EXCEPT ![s].outage = OutageAge(s), ![s].restartCount = @ + 1,
                                ![s].pc = "stop", ![s].log = "attempt"]
    /\ UNCHANGED <<auxVars, confVars, nodeVars, supVars, watchdogCancel, ageVars, cfgWatchdogEnabled, uiVars, opStopped>>

\* retry window reached, and the session goes on monitoring
watchdogGiveUpContinue(s) ==
    /\ At(s, "giveup")
    /\ wd' = [wd EXCEPT ![s].pc = "select"]
    /\ UNCHANGED <<auxVars, confVars, nodeVars, supVars, watchdogCancel, watchdogRestarting, ageVars,
                   cfgWatchdogEnabled, uiVars, opStopped>>

\* retry window reached: stopMinerWithOrigin(minerStopOriginUser), first half
watchdogGiveUpCancel(s) ==
    /\ At(s, "giveup")
    /\ stopWatchdogSession(s, "giveupstop")
    /\ UNCHANGED <<auxVars, confVars, nodeVars, supVars, ageVars, cfgWatchdogEnabled, uiVars, opStopped>>

\* retry window reached: the critical section of stopMinerWithOrigin; return
watchdogGiveUpInterrupt(s) ==
    /\ At(s, "giveupstop")
    /\ interruptMiner
    /\ wd' = [wd EXCEPT ![s] = Ended]
    /\ UNCHANGED <<auxVars, confVars, nodeVars, minerCmd, pollCancel, minerDeviceMap, mproc, watchdogCancel, watchdogRestarting,
                   ageVars, cfgWatchdogEnabled, uiVars, opStopped>>

\* restart cycle: stopMinerWithOrigin(minerStopOriginWatchdog)
watchdogStop(s) ==
    /\ At(s, "stop")
    /\ interruptMiner
    /\ wd' = [wd EXCEPT ![s].pc = "wait", ![s].left = Units(ExitWaitSec)]
    /\ UNCHANGED <<auxVars, confVars, nodeVars, minerCmd, pollCancel, minerDeviceMap, mproc, watchdogCancel, watchdogRestarting,
                   ageVars, cfgWatchdogEnabled, uiVars, opStopped>>

\* waitForMinerExit returns: the process is gone, the deadline has passed
\* or the context is cancelled
waitForMinerExit(s) ==
    /\ At(s, "wait")
    /\ \/ ~minerRunning
       \/ wd[s].left = 0
       \/ wd[s].cancelled
    /\ wd' = [wd EXCEPT ![s].pc = "delay", ![s].left = RestartDelay]
    /\ UNCHANGED <<auxVars, confVars, nodeVars, supVars, watchdogCancel, watchdogRestarting, ageVars,
                   cfgWatchdogEnabled, uiVars, opStopped>>

\* select { case <-ctx.Done(): watchdogRestarting.Store(false); return }
watchdogDelayCancelled(s) ==
    /\ At(s, "delay")
    /\ wd[s].cancelled
    /\ watchdogRestarting' = FALSE
    /\ wd' = [wd EXCEPT ![s] = Ended]
    /\ UNCHANGED <<auxVars, confVars, nodeVars, supVars, watchdogCancel, ageVars, cfgWatchdogEnabled, uiVars, opStopped>>

\* select { case <-time.After(settings.RestartDelay): }, the three stores,
\* the test of ctx.Err() and fyne.Do
watchdogDelayOver(s) ==
    /\ At(s, "delay")
    /\ wd[s].left = 0
    /\ minerStartedAge' = 0
    /\ lastJobAge' = -1
    /\ currentJobBlock' = 0
    /\ UNCHANGED jobDifficulty
    /\ IF wd[s].cancelled
       THEN /\ watchdogRestarting' = FALSE
            /\ wd' = [wd EXCEPT ![s] = Ended]
            /\ UNCHANGED uiQueue
       ELSE /\ uiQueue' = Append(uiQueue, <<"restart", s>>)
            /\ wd' = [wd EXCEPT ![s].pc = "await", ![s].left = 0]
            /\ UNCHANGED watchdogRestarting
    /\ UNCHANGED <<auxVars, confVars, nodeVars, supVars, watchdogCancel, cfgWatchdogEnabled, uiRunning, waitingForStats, lastAccepted, uiPc, opStopped>>

\* a session that returns when the start it asked for has failed
watchdogStartReturnedFatal(s) ==
    /\ At(s, "await")
    /\ wd[s].res # "none"
    /\ watchdogRestarting' = FALSE
    /\ wd' = [wd EXCEPT ![s] = IF wd[s].res = "ok"
                                THEN [@ EXCEPT !.pc = "select", !.res = "none"]
                                ELSE Ended]
    /\ UNCHANGED <<auxVars, confVars, nodeVars, supVars, watchdogCancel, ageVars, cfgWatchdogEnabled, uiVars, opStopped>>

\* err := <-startErrCh; if err != nil the line "[watchdog] Restart failed";
\* watchdogRestarting.Store(false); next iteration
watchdogStartReturned(s) ==
    /\ At(s, "await")
    /\ wd[s].res # "none"
    /\ watchdogRestarting' = FALSE
    /\ wd' = [wd EXCEPT ![s].pc = "select", ![s].res = "none",
                        ![s].log = IF wd[s].res = "ok" THEN @ ELSE wd[s].res]
    /\ UNCHANGED <<auxVars, confVars, nodeVars, supVars, watchdogCancel, ageVars, cfgWatchdogEnabled, uiVars, opStopped>>

\* ------------------------------------------------------------ UI goroutine
\* the function queued by the wait goroutine: setRunningUI(false)
uiStopped ==
    /\ uiPc = "idle"
    /\ uiQueue # <<>>
    /\ Head(uiQueue)[1] = "stopped"
    /\ uiQueue' = Tail(uiQueue)
    /\ uiRunning' = FALSE
    /\ waitingForStats' = FALSE
    /\ lastAccepted' = 0
    /\ lastJobAge' = -1
    /\ currentJobBlock' = 0
    /\ jobDifficulty' = NoText
    /\ UNCHANGED <<auxVars, confVars, nodeVars, supVars, wdVars, minerStartedAge, cfgWatchdogEnabled, uiPc, opStopped>>

\* the function queued by the watchdog:
\* if ctx.Err() != nil { startErrCh <- ctx.Err(); return }
\* startErrCh <- startMinerWithOrigin(minerStartOriginWatchdog)
uiRestart(oc) ==
    /\ uiPc = "idle"
    /\ uiQueue # <<>>
    /\ Head(uiQueue)[1] = "restart"
    /\ uiQueue' = Tail(uiQueue)
    /\ LET s == Head(uiQueue)[2] IN
         IF wd[s].cancelled
         THEN /\ wd' = [wd EXCEPT ![s].res = "cancelled"]
              /\ UNCHANGED <<minerCmd, pollCancel, minerDeviceMap, mproc, lastJobAge, jobVars, minerStartedAge,
                             uiRunning, waitingForStats, lastAccepted>>
         ELSE /\ UNCHANGED cfgArgs
              /\ startMinerWithOrigin("watchdog", oc)
              /\ wd' = [wd EXCEPT ![s].res = StartResult(oc),
                                     ![s].used = IF minerRunning THEN @ ELSE cfgArgs]
    /\ UNCHANGED <<auxVars, confVars, nodeVars, mtimers, watchdogCancel, watchdogRestarting, cfgWatchdogEnabled, uiPc,
                   opStopped>>

\* ---------------------------------------------------- ProcessSupervisor: node
\* the guard of startNodeWithSettings, startNodeAsync and stopNode:
\* nodeCmd != nil && nodeCmd.Process != nil
nodeRunning == nodeCmd # 0

\* setNodeButtons(running)
setNodeButtons(running) ==
    /\ nodeStartBtn' = (~running /\ nodeEnabled)
    /\ nodeStopBtn' = running

\* what the environment does to a node start: "prep" is a failure before
\* the context is made (geth or genesis missing, wipe or init failed),
\* "spawn" is a failure of cmd.Start
NodeStartOutcomes == {"ok", "prep", "spawn"}

\* what startNodeWithSettings returns
NodeStartResult(oc) ==
    IF nodeRunning THEN "nil"
    ELSE IF oc = "ok" THEN "nil" ELSE "error"

\* startNodeAsync after the snapshot of the settings: return nil while a
\* handle exists, else setNodeButtons(true) and a goroutine that runs
\* startNodeWithSettings
startNodeAsync ==
    IF nodeRunning
    THEN UNCHANGED <<nstart, nodeStartBtn, nodeStopBtn>>
    ELSE /\ FreeRec(nstart, NodeStarts) # {}
         /\ nstart' = [nstart EXCEPT ![Lowest(FreeRec(nstart, NodeStarts))] =
                [st |-> "check", cmd |-> 0]]
         /\ setNodeButtons(TRUE)

\* the Start node button
nodeStartClick ==
    /\ uiPc = "idle"
    /\ nodeChainIssue.dialogs = 0
    /\ nodeStartBtn
    /\ startNodeAsync
    /\ UNCHANGED <<auxVars, confVars, minerVars, nodeCmd, nodeCancel, autoMining, nproc, ntimers, nreset,
                   uiQueue, uiPc>>

\* startNodeWithSettings, first critical section: return nil while a handle
\* exists
nodeStartCheck(g) ==
    /\ nstart[g].st = "check"
    /\ nstart' = [nstart EXCEPT ![g] = IF nodeRunning THEN GoneStart
                                       ELSE [@ EXCEPT !.st = "prep"]]
    /\ UNCHANGED <<auxVars, confVars, minerVars, nodeCmd, nodeCancel, autoMining, nproc, ntimers, nreset,
                   nodeStartBtn, nodeStopBtn, uiQueue, uiPc>>

\* startNodeWithSettings from findGeth() to cmd.Start(), outside procMu; a
\* failure is reported by the goroutine of startNodeAsync, and a failure of
\* cmd.Start by startNodeWithSettings too
nodeStartSpawn(g, oc) ==
    /\ nstart[g].st = "prep"
    /\ IF oc = "prep"
       THEN /\ uiQueue' = Append(uiQueue, <<"nodeOff", 0>>)
            /\ nstart' = [nstart EXCEPT ![g] = GoneStart]
            /\ UNCHANGED <<nodeCancel, autoMining, nproc>>
       ELSE IF oc = "spawn"
       THEN /\ nodeCancel' = 0
            /\ autoMining' = IF autoMining.mine THEN [autoMining EXCEPT !.nodeCtx = 0] ELSE autoMining
            /\ uiQueue' = uiQueue \o << <<"nodeOff", 0>>, <<"nodeOff", 0>> >>
            /\ nstart' = [nstart EXCEPT ![g] = GoneStart]
            /\ UNCHANGED nproc
       ELSE /\ FreeIn(nproc, NodeProcs) # {}
            /\ LET p == Lowest(FreeIn(nproc, NodeProcs)) IN
                /\ nodeCancel' = p
                /\ autoMining' = IF autoMining.mine THEN [autoMining EXCEPT !.nodeCtx = p] ELSE autoMining
                /\ nproc' = [nproc EXCEPT ![p] = "spawned"]
                /\ nstart' = [nstart EXCEPT ![g] = [st |-> "record", cmd |-> p]]
            /\ UNCHANGED uiQueue
    /\ UNCHANGED <<auxVars, confVars, minerVars, nodeCmd, ntimers, nreset, nodeStartBtn,
                   nodeStopBtn, uiPc>>

\* startNodeWithSettings, second critical section: nodeCmd = cmd; the wait
\* goroutine of cmd starts
nodeStartRecord(g) ==
    /\ nstart[g].st = "record"
    /\ nodeCmd' = nstart[g].cmd
    /\ nproc' = [nproc EXCEPT ![nstart[g].cmd] =
                    IF @ = "spawned" THEN "running" ELSE "exited"]
    /\ nstart' = [nstart EXCEPT ![g] = GoneStart]
    /\ autoMining' = IF ~autoMining.mine THEN autoMining
                     ELSE [autoMining EXCEPT !.g[nstart[g].cmd] =
                             IF autoMining.nodeCtx = 0 THEN [FreeAuto EXCEPT !.st = "panic"]
                             ELSE [FreeAuto EXCEPT !.st = "loop", !.ctx = autoMining.nodeCtx]]
    /\ UNCHANGED <<auxVars, confVars, minerVars, nodeCancel, ntimers, nreset, nodeStartBtn,
                   nodeStopBtn, uiQueue, uiPc>>

\* a node process that was spawned and has not ended
NodeLive(p) == nproc[p] \in {"spawned", "running"}

\* what ends a node process does to its state
NodeEnded(st) == IF st = "spawned" THEN "unwaited"
                 ELSE IF st = "running" THEN "exited" ELSE st

\* the process ends: on its own, or after an interrupt
nodeExits(p) ==
    /\ NodeLive(p)
    /\ nproc' = [nproc EXCEPT ![p] = NodeEnded(@)]
    /\ UNCHANGED <<auxVars, confVars, minerVars, nodeCmd, nodeCancel, autoMining, ntimers, nstart, nreset,
                   nodeStartBtn, nodeStopBtn, uiQueue, uiPc>>

\* wait goroutine: cmd.Wait() has returned; the critical section.  The
\* context nodeCancel cancels is that of the last exec.CommandContext, and
\* cancelling it kills its process
nodeWaitClear(p) ==
    /\ nproc[p] = "exited"
    /\ nodeCmd' = 0
    /\ nodeCancel' = 0
    /\ autoMining' = IF autoMining.mine /\ nodeCancel # 0
                     THEN [autoMining EXCEPT !.done = @ \cup {nodeCancel}] ELSE autoMining
    /\ nproc' = [q \in NodeProcs |->
                    IF q = p THEN "reaped"
                    ELSE IF q = nodeCancel THEN NodeEnded(nproc[q]) ELSE nproc[q]]
    /\ UNCHANGED <<auxVars, confVars, minerVars, ntimers, nstart, nreset, nodeStartBtn,
                   nodeStopBtn, uiQueue, uiPc>>

\* wait goroutine: fyne.Do(func() { setNodeBadge(...); setNodeButtons(false) })
nodeWaitNotify(p) ==
    /\ nproc[p] = "reaped"
    /\ uiQueue' = Append(uiQueue, <<"nodeOff", 0>>)
    /\ nproc' = [nproc EXCEPT ![p] = "done"]
    /\ UNCHANGED <<auxVars, confVars, minerVars, nodeCmd, nodeCancel, autoMining, ntimers, nstart, nreset,
                   nodeStartBtn, nodeStopBtn, uiPc>>

\* stopNode: under procMu, interrupt the process nodeCmd refers to and
\* start its forced-kill goroutine
stopNode ==
    IF ~nodeRunning
    THEN UNCHANGED ntimers
    ELSE /\ FreeRec(ntimers, NodeTimerIds) # {}
         /\ ntimers' = [ntimers EXCEPT ![Lowest(FreeRec(ntimers, NodeTimerIds))] =
                [st |-> "sleep", cmd |-> nodeCmd, left |-> Units(NodeGraceSec)]]

\* the Stop node button
nodeStopClick ==
    /\ uiPc = "idle"
    /\ nodeChainIssue.dialogs = 0
    /\ nodeStopBtn
    /\ stopNode
    /\ UNCHANGED <<auxVars, confVars, minerVars, nodeCmd, nodeCancel, autoMining, nproc, nstart, nreset,
                   nodeStartBtn, nodeStopBtn, uiQueue, uiPc>>

\* forced-kill goroutine: the sleep is over; still := nodeCmd == cmd
nodeKillCheck(t) ==
    /\ ntimers[t].st = "sleep"
    /\ ntimers[t].left = 0
    /\ ntimers' = [ntimers EXCEPT ![t] =
            IF nodeCmd = ntimers[t].cmd THEN [@ EXCEPT !.st = "kill"] ELSE GoneTimer]
    /\ UNCHANGED <<auxVars, confVars, minerVars, nodeCmd, nodeCancel, autoMining, nproc, nstart, nreset,
                   nodeStartBtn, nodeStopBtn, uiQueue, uiPc>>

\* forced-kill goroutine: p.Kill(); a killed process has ended
nodeKill(t) ==
    /\ ntimers[t].st = "kill"
    /\ ntimers' = [ntimers EXCEPT ![t] = GoneTimer]
    /\ nproc' = [nproc EXCEPT ![ntimers[t].cmd] = NodeEnded(@)]
    /\ UNCHANGED <<auxVars, confVars, minerVars, nodeCmd, nodeCancel, autoMining, nstart, nreset,
                   nodeStartBtn, nodeStopBtn, uiQueue, uiPc>>

\* ----------------------------------------------------- reset and resync
\* resetNodeDataAndResync, confirmed: doReset starts its goroutine
nodeResetClick ==
    /\ uiPc = "idle"
    /\ nodeChainIssue.dialogs = 0
    /\ nodeEnabled
    /\ FreeRec(nreset, Resets) # {}
    /\ nreset' = [nreset EXCEPT ![Lowest(FreeRec(nreset, Resets))] =
            [st |-> "begin", left |-> 0]]
    /\ UNCHANGED <<auxVars, confVars, minerVars, nodeCmd, nodeCancel, autoMining, nproc, ntimers, nstart,
                   nodeStartBtn, nodeStopBtn, uiQueue, uiPc>>

\* doReset: fyne.Do(setNodeButtons(true)); stopNode(); the deadline is set
nodeResetBegin(r) ==
    /\ nreset[r].st = "begin"
    /\ uiQueue' = Append(uiQueue, <<"nodeBusy", 0>>)
    /\ stopNode
    /\ nreset' = [nreset EXCEPT ![r] = [st |-> "poll", left |-> Units(ResetWaitSec)]]
    /\ UNCHANGED <<auxVars, confVars, minerVars, nodeCmd, nodeCancel, autoMining, nproc, nstart,
                   nodeStartBtn, nodeStopBtn, uiPc>>

\* doReset: the loop finds no handle, or the deadline has passed; then the
\* wipe, which may fail; after a wipe the three nodeChainIssue values are
\* zeroed, and fyne.Do(startNodeAsync(false))
nodeResetPoll(r, wiped) ==
    /\ nreset[r].st = "poll"
    /\ IF ~nodeRunning
       THEN uiQueue' = Append(uiQueue, <<IF wiped THEN "nodeStart" ELSE "nodeOff", 0>>)
       ELSE /\ nreset[r].left = 0
            /\ uiQueue' = Append(uiQueue, <<"nodeOff", 0>>)
    /\ nreset' = [nreset EXCEPT ![r] = GoneReset]
    /\ nodeChainIssue' = IF ~nodeRunning /\ wiped
                         THEN [nodeChainIssue EXCEPT !.shown = FALSE, !.count = 0, !.first = -1]
                         ELSE nodeChainIssue
    /\ UNCHANGED <<build, cfgArgs, procMu, dispVars, poll, snapshot, logVars, confVars, minerVars, nodeCmd, nodeCancel, autoMining, nproc, ntimers,
                   nstart, nodeStartBtn, nodeStopBtn, uiPc>>

\* the queued function: setNodeBadge("Node: Off"); setNodeButtons(false)
uiNodeOff ==
    /\ uiPc = "idle"
    /\ uiQueue # <<>>
    /\ Head(uiQueue)[1] = "nodeOff"
    /\ uiQueue' = Tail(uiQueue)
    /\ setNodeButtons(FALSE)
    /\ UNCHANGED <<auxVars, confVars, minerVars, nodeCmd, nodeCancel, autoMining, nproc, ntimers, nstart,
                   nreset, uiPc>>

\* the queued function of doReset: setNodeBadge("Node: Resetting");
\* setNodeButtons(true)
uiNodeBusy ==
    /\ uiPc = "idle"
    /\ uiQueue # <<>>
    /\ Head(uiQueue)[1] = "nodeBusy"
    /\ uiQueue' = Tail(uiQueue)
    /\ setNodeButtons(TRUE)
    /\ UNCHANGED <<auxVars, confVars, minerVars, nodeCmd, nodeCancel, autoMining, nproc, ntimers, nstart,
                   nreset, uiPc>>

\* the queued function of doReset: startNodeAsync(false)
uiNodeStart ==
    /\ uiPc = "idle"
    /\ uiQueue # <<>>
    /\ Head(uiQueue)[1] = "nodeStart"
    /\ uiQueue' = Tail(uiQueue)
    /\ startNodeAsync
    /\ UNCHANGED <<auxVars, confVars, minerVars, nodeCmd, nodeCancel, autoMining, nproc, ntimers, nreset, uiPc>>

\* ------------------------------------------------- database issue prompt
\* the pipes of node process p are read by streamLines goroutines: they
\* are started after the handle is recorded and may hand over a line late
NodePiped(p) == nproc[p] \in {"running", "exited", "reaped", "done"}

\* the values appendNodeLog leaves behind for a line with isLocalDBIssue
IssueExpired == nodeChainIssue.first = -1 \/ nodeChainIssue.first > IssueWindow
IssueCount == IF IssueExpired THEN 1 ELSE Min(nodeChainIssue.count + 1, IssueThreshold)
IssueFirst == IF IssueExpired THEN 0 ELSE nodeChainIssue.first
ShouldPrompt(fatal) == fatal \/ IssueCount >= IssueThreshold

\* appendNodeLog for a line of a node process that matches isLocalDBIssue,
\* and isFatal or not: window and count, then CompareAndSwap(false, true)
\* on nodeChainIssueDialogShown and fyne.Do of the dialog
appendNodeLogIssue(fatal) ==
    /\ \E p \in NodeProcs : NodePiped(p)
    /\ nodeChainIssue.open < MaxPrompts
    /\ LET raise == ShouldPrompt(fatal) /\ ~nodeChainIssue.shown
       IN /\ nodeChainIssue' = [nodeChainIssue EXCEPT
                 !.count = IssueCount,
                 !.first = IssueFirst,
                 !.shown = @ \/ raise,
                 !.open = IF raise THEN @ + 1 ELSE @,
                 !.prev = <<0, nodeChainIssue.prev[1]>>]
          /\ uiQueue' = IF raise THEN Append(uiQueue, <<"issuePrompt", 0>>) ELSE uiQueue
    /\ UNCHANGED <<build, cfgArgs, procMu, dispVars, poll, snapshot, logVars, confVars, minerVars, nodeVars, uiPc>>

\* the queued function: d.Show()
uiIssuePrompt ==
    /\ uiPc = "idle"
    /\ uiQueue # <<>>
    /\ Head(uiQueue)[1] = "issuePrompt"
    /\ uiQueue' = Tail(uiQueue)
    /\ nodeChainIssue' = [nodeChainIssue EXCEPT !.dialogs = @ + 1]
    /\ UNCHANGED <<build, cfgArgs, procMu, dispVars, poll, snapshot, logVars, confVars, minerVars, nodeVars, uiPc>>

\* the callback of the dialog, Dismiss: nodeChainIssueDialogShown.Store(false)
issueDismiss ==
    /\ uiPc = "idle"
    /\ nodeChainIssue.dialogs > 0
    /\ nodeChainIssue' = [nodeChainIssue EXCEPT !.shown = FALSE, !.open = @ - 1, !.dialogs = @ - 1]
    /\ UNCHANGED <<build, cfgArgs, procMu, dispVars, poll, snapshot, logVars, confVars, minerVars, nodeVars, uiQueue, uiPc>>

\* the callback of the dialog, "Reset node data & resync":
\* resetNodeDataAndResync(true, false), which returns early when the node
\* is disabled and else starts the goroutine of doReset
issueAccept ==
    /\ uiPc = "idle"
    /\ nodeChainIssue.dialogs > 0
    /\ IF ~nodeEnabled
       THEN /\ nodeChainIssue' = [nodeChainIssue EXCEPT !.open = @ - 1, !.dialogs = @ - 1]
            /\ UNCHANGED nreset
       ELSE /\ FreeRec(nreset, Resets) # {}
            /\ nreset' = [nreset EXCEPT ![Lowest(FreeRec(nreset, Resets))] =
                    [st |-> "begin", left |-> 0]]
            /\ nodeChainIssue' = [nodeChainIssue EXCEPT !.open = @ - 1, !.dialogs = @ - 1,
                                     !.accepted = Lowest(FreeRec(nreset, Resets))]
    /\ UNCHANGED <<build, cfgArgs, procMu, dispVars, poll, snapshot, logVars, confVars, minerVars, nodeCmd, nodeCancel, autoMining, nproc, ntimers,
                   nstart, nodeStartBtn, nodeStopBtn, uiQueue, uiPc>>

\* one step of the clock of the prompt passes
IssueAdvance ==
    /\ nodeChainIssue' = [nodeChainIssue EXCEPT
            !.first = Older(@, IssueWindow + 1),
            !.prev = <<Older(@[1], IssueWindow + 1), Older(@[2], IssueWindow + 1)>>]
    /\ nodeChainIssue' # nodeChainIssue
    /\ UNCHANGED <<build, cfgArgs, procMu, dispVars, poll, snapshot, logVars, confVars, minerVars, nodeVars, uiQueue, uiPc>>

\* ------------------------------------------------- mining service of the node
\* the node processes that answer on the RPC port, and the one that holds it
NodeServing == {q \in NodeProcs : NodeLive(q)}

\* autoStartMiningService, one turn of the loop after a tick: the three
\* checks (ready: the node reports peers, a block number and no sync), which
\* fail without a process on the port and with a cancelled context; at the
\* second passing check in a row rpcMinerStart, which the node accepts (ok)
\* or refuses
autoStartMiningCheck(p, ready, ok) ==
    /\ autoMining.g[p].st = "loop"
    /\ LET a == autoMining.g[p]
           pass == ready /\ a.ctx \notin autoMining.done /\ NodeServing # {}
           readyStreak == IF pass THEN a.readyStreak + 1 ELSE 0
           call == readyStreak >= ReadyStreak
       IN autoMining' = [autoMining EXCEPT
              !.g[p] = IF ~pass THEN [a EXCEPT !.readyStreak = 0, !.last = "failed"]
                       ELSE IF ~call THEN [a EXCEPT !.readyStreak = readyStreak, !.last = "ready"]
                       ELSE IF ok THEN [a EXCEPT !.st = "returned", !.readyStreak = readyStreak,
                                                 !.last = "started"]
                       ELSE [a EXCEPT !.readyStreak = 0, !.last = "refused"],
              !.served = IF pass /\ call /\ ok
                         THEN [@ EXCEPT ![Lowest(NodeServing)] = Min(@ + 1, MaxServed)]
                         ELSE @]
    /\ UNCHANGED <<auxVars, confVars, minerVars, nodeCmd, nodeCancel, nproc, ntimers, nstart,
                   nreset, nodeStartBtn, nodeStopBtn, uiQueue, uiPc>>

\* autoStartMiningService: case <-ctx.Done(): return
autoStartMiningDone(p) ==
    /\ autoMining.g[p].st = "loop"
    /\ autoMining.g[p].ctx \in autoMining.done
    /\ autoMining' = [autoMining EXCEPT !.g[p].st = "returned"]
    /\ UNCHANGED <<auxVars, confVars, minerVars, nodeCmd, nodeCancel, nproc, ntimers, nstart,
                   nreset, nodeStartBtn, nodeStopBtn, uiQueue, uiPc>>

\* ---------------------------------------------------------------- worker log
\* a line of the log: where it comes from (process and pipe, process 0 for
\* the texts of the supervisor), its number there, and whether it matches
\* the job pattern (xmrigJobLine, jobBlockLine)
Line(src, n, job) == <<src, n, job>>
IsJob(line) == line # NoLine /\ line[3]
\* the empty string between and after the "\n" of a text
Blank == Line(<<0, "blank">>, 0, FALSE)

\* a logEvent
LogEvent(reset, text) == [reset |-> reset, text |-> text]

\* select { case minerLogEvents <- ev: default: }
TrySend(q, ev) == IF Len(q) < ChanCap THEN Append(q, ev) ELSE q

\* minerLogBuf.Append(line) for the lines of a text, in order
RECURSIVE AppendAll(_, _)
AppendAll(r, lines) ==
    IF lines = <<>> THEN r ELSE AppendAll(ringLogsAppend(r, Head(lines)), Tail(lines))

\* main.go: one send that does not block for each line of a text
RECURSIVE SendAll(_, _)
SendAll(q, lines) ==
    IF lines = <<>> THEN q ELSE SendAll(TrySend(q, LogEvent(FALSE, Head(lines))), Tail(lines))

\* what appendMinerLog(text) does to the ring and the channel, text given
\* as its lines: interrupt_windows.go appends the lines to the ring and
\* sends one event without a text; main.go sends each line
LogAppend(log, lines) ==
    IF build = "xmrig"
    THEN [buf |-> AppendAll(log.buf, lines),
          events |-> IF lines = <<>> THEN log.events
                     ELSE TrySend(log.events, LogEvent(FALSE, NoLine))]
    ELSE [buf |-> log.buf, events |-> SendAll(log.events, lines)]

\* what resetMinerLog() does to them: interrupt_windows.go clears the ring
\* and sends a reset event, main.go sends the reset event only
LogReset(log) ==
    [buf |-> IF build = "xmrig" THEN ringLogsClear(log.buf) ELSE log.buf,
     events |-> TrySend(log.events, LogEvent(TRUE, NoLine))]

MinerLog == [buf |-> minerLogBuf, events |-> minerLogEvents]

\* an appendMinerLog that looks at the channel first and gives up when it
\* is full
appendMinerLogFullFirst(lines) ==
    /\ IF (\E i \in DOMAIN lines : IsJob(lines[i])) /\ Len(minerLogEvents) < ChanCap
       THEN handleJobLine(UsualJob)
       ELSE UNCHANGED <<lastJobAge, jobVars, wd>>
    /\ minerLogBuf' = LogAppend(MinerLog, lines).buf
    /\ minerLogEvents' = LogAppend(MinerLog, lines).events

\* appendMinerLog(text): the state derived from a job line, then the log
appendMinerLog(lines) ==
    /\ IF \E i \in DOMAIN lines : IsJob(lines[i])
       THEN handleJobLine(UsualJob)
       ELSE UNCHANGED <<lastJobAge, jobVars, wd>>
    /\ minerLogBuf' = LogAppend(MinerLog, lines).buf
    /\ minerLogEvents' = LogAppend(MinerLog, lines).events

\* the texts the supervisor writes: "Starting: ...\n\n", "\n[exit] ...\n"
\* and "[api] ...\n"
StartingText == <<Line(<<0, "start">>, 0, FALSE), Blank, Blank>>
ExitText == <<Blank, Line(<<0, "exit">>, 0, FALSE), Blank>>
ApiText == <<Line(<<0, "api">>, 0, FALSE), Blank>>

\* the Start button where the log is followed: startMinerUser with the
\* watchdog disabled, with resetMinerLog() and the "Starting" text of
\* startMinerWithOrigin, both before cmd.Start
startMinerLogging(oc) ==
    /\ uiPc = "idle"
    /\ xmrigFound
    /\ ~uiRunning
    /\ cfgWatchdogEnabled' = FALSE
    /\ UNCHANGED cfgArgs
    /\ startMinerWithOrigin("user", oc)
    /\ opStopped' = FALSE
    /\ IF minerRunning \/ oc = "early"
       THEN UNCHANGED <<minerLogBuf, minerLogEvents>>
       ELSE /\ minerLogBuf' = LogAppend(LogReset(MinerLog), StartingText).buf
            /\ minerLogEvents' = LogAppend(LogReset(MinerLog), StartingText).events
    /\ UNCHANGED <<confVars, nodeVars, mtimers, wdVars, uiQueue, uiPc, build, cfgArgs, procMu, dispVars, poll, snapshot, nodeChainIssue, streams, appended>>

\* wait goroutine, after fyne.Do: appendMinerLog("\n[exit] ...\n")
minerExitLine(p) ==
    /\ mproc[p] = "done"
    /\ mproc' = [mproc EXCEPT ![p] = "logged"]
    /\ appendMinerLog(ExitText)
    /\ UNCHANGED <<confVars, nodeVars, minerCmd, pollCancel, minerDeviceMap, mtimers, watchdogCancel, watchdogRestarting,
                   minerStartedAge, cfgWatchdogEnabled, uiVars, opStopped, build, cfgArgs, procMu, dispVars, poll, snapshot, nodeChainIssue, streams, appended>>

\* streamLines: the scanner of pipe f of process p has a line; whether it
\* is a job line is up to the worker
streamLines(p, f, job) ==
    /\ mproc[p] \notin {"free"}
    /\ streams[<<p, f>>] < MaxLines
    /\ streams' = [streams EXCEPT ![<<p, f>>] = @ + 1]
    /\ appendMinerLog(<<Line(<<p, f>>, streams[<<p, f>>] + 1, job)>>)
    /\ UNCHANGED <<confVars, nodeVars, supVars, watchdogCancel, watchdogRestarting, minerStartedAge,
                   cfgWatchdogEnabled, uiVars, opStopped, build, cfgArgs, procMu, dispVars, poll, snapshot, nodeChainIssue, appended>>

\* a consumer that takes the newest event of the channel first
minerLogConsumerNewest ==
    /\ minerLogEvents # <<>>
    /\ minerLogEvents' = SubSeq(minerLogEvents, 1, Len(minerLogEvents) - 1)
    /\ minerLogBuf' = IF build = "xmrig" THEN minerLogBuf
                      ELSE IF minerLogEvents[Len(minerLogEvents)].reset THEN ringLogsClear(minerLogBuf)
                      ELSE ringLogsAppend(minerLogBuf, minerLogEvents[Len(minerLogEvents)].text)
    /\ UNCHANGED <<confVars, minerVars, nodeVars, uiQueue, uiPc, build, cfgArgs, procMu, dispVars, poll, snapshot, nodeChainIssue, streams, appended>>

\* the consumer of minerLogEvents takes an event: main.go clears the ring
\* on a reset and appends the text of a line; interrupt_windows.go marks
\* the view dirty
minerLogConsumer ==
    /\ minerLogEvents # <<>>
    /\ minerLogEvents' = Tail(minerLogEvents)
    /\ minerLogBuf' = IF build = "xmrig" THEN minerLogBuf
                      ELSE IF Head(minerLogEvents).reset THEN ringLogsClear(minerLogBuf)
                      ELSE ringLogsAppend(minerLogBuf, Head(minerLogEvents).text)
    /\ UNCHANGED <<confVars, minerVars, nodeVars, uiQueue, uiPc, build, cfgArgs, procMu, dispVars, poll, snapshot, nodeChainIssue, streams, appended>>

\* ------------------------------------------------------------------ pollStats
\* the goroutine "go pollStats(pollCtx, ...)" of process p has been started
PollStarted(p) == mproc[p] # "free"

\* the poll context of process p is cancelled: the wait goroutine of p has
\* called pollCancel() in its critical section
PollCtxDone(p) == mproc[p] \in {"reaped", "done", "logged"}

\* the errors of a query, by what onErr looks for in their text
\* the accepted counts a summary reports
Accepts == {0, 3, 5}

ErrKinds == {"connection refused", "no such host", "i/o timeout", "other"}

\* what the tick in progress has handed to onErr and to onStat
ErrOut == [kind |-> "err", detail |-> NoDetail]
StatOut(d) == [kind |-> "stat", detail |-> d]

\* gap is not counted beyond this
MaxGap == DifficultyEvery + 1

\* the onErr callback: interrupt_windows.go returns on "connection refused"
\* and "no such host" while waitingForStats, main.go has no such test; then
\* appendMinerLog("[api] ...\n")
onErr(kind) ==
    IF build = "xmrig" /\ waitingForStats /\ kind \in {"connection refused", "no such host"}
    THEN UNCHANGED <<lastJobAge, jobVars, wd, minerLogBuf, minerLogEvents>>
    ELSE appendMinerLog(ApiText)

\* the onStat callback: firstStat := waitingForStats.Swap(false); the
\* widgets it updates are not followed
\* prevAccepted := lastAccepted.Swap(s.Accepted)
onStat(accepted) ==
    /\ waitingForStats' = FALSE
    /\ lastAccepted' = accepted

\* hasNewAccept := s.Accepted > prevAccepted, which runs highlightShares
hasNewAccept(accepted) == accepted > lastAccepted

\* the snapshot of process p is handed to onStat
Handed(p, accepted) == [snapshot EXCEPT ![p] = [accepted |-> accepted, prev |-> accepted]]

\* what a step of a poller leaves alone
pollRest == <<confVars, nodeVars, supVars, watchdogCancel, watchdogRestarting, minerStartedAge,
              cfgWatchdogEnabled, uiRunning, uiQueue, uiPc, opStopped, build, cfgArgs, procMu, dispVars, nodeChainIssue, streams, appended>>

\* select { case <-ctx.Done(): return }
pollCtxDone(p) ==
    /\ PollStarted(p)
    /\ poll[p].pc = "select"
    /\ PollCtxDone(p)
    /\ poll' = [poll EXCEPT ![p].pc = "gone"]
    /\ UNCHANGED <<pollRest, snapshot, waitingForStats, lastAccepted, lastJobAge, jobVars, wd, minerLogBuf, minerLogEvents>>

\* select { case <-ticker.C: }: the summary query begins; select may take
\* this case while ctx.Done() is ready too
pollTick(p) ==
    /\ PollStarted(p)
    /\ poll[p].pc = "select"
    /\ poll' = [poll EXCEPT ![p].pc = "summary", ![p].gap = Min(@ + 1, MaxGap), ![p].out = <<>>]
    /\ UNCHANGED <<pollRest, snapshot, waitingForStats, lastAccepted, lastJobAge, jobVars, wd, minerLogBuf, minerLogEvents>>

\* main.go, between getStat1 and getStatDetail: the two counters
\* need is "detail || len(st.PerGPU_KHs) == 0"
SensorsTick(q, need) == IF need THEN q.detailTick + 1 ELSE q.detailTick
SensorsDue(q, need) == need /\ (SensorsTick(q, need) >= DetailEvery \/ ~q.cached.sensors)
DifficultyDue(q) == q.difficultyTick + 1 >= DifficultyEvery \/ ~q.cached.difficulty
needDetailCall(q, need) == SensorsDue(q, need) \/ DifficultyDue(q)
AfterCounters(q, need) ==
    [q EXCEPT !.detailTick = IF SensorsDue(q, need) THEN 0 ELSE SensorsTick(q, need),
              !.difficultyTick = IF DifficultyDue(q) THEN 0 ELSE @ + 1]

\* the summary query (getSummary, getStat1) returns.  On an error: onErr
\* and the next tick.  Else interrupt_windows.go goes on to getBackends;
\* main.go counts, and goes on to getStatDetail or applies the cached detail
\* and calls onStat
pollSummary(p, ok, kind, need, accepted) ==
    /\ poll[p].pc = "summary"
    /\ IF ~ok
       THEN /\ onErr(kind)
            /\ poll' = [poll EXCEPT ![p].pc = "select", ![p].out = Append(@, ErrOut)]
            /\ UNCHANGED <<snapshot, waitingForStats, lastAccepted>>
       ELSE IF build = "xmrig"
       THEN /\ poll' = [poll EXCEPT ![p].pc = "detail", ![p].gap = 0]
            /\ snapshot' = [snapshot EXCEPT ![p].accepted = accepted]
            /\ UNCHANGED <<waitingForStats, lastAccepted, lastJobAge, jobVars, wd, minerLogBuf, minerLogEvents>>
       ELSE IF needDetailCall(poll[p], need)
       THEN /\ poll' = [poll EXCEPT ![p] = [AfterCounters(@, need) EXCEPT !.pc = "detail", !.gap = 0]]
            /\ snapshot' = [snapshot EXCEPT ![p].accepted = accepted]
            /\ UNCHANGED <<waitingForStats, lastAccepted, lastJobAge, jobVars, wd, minerLogBuf, minerLogEvents>>
       ELSE /\ poll' = [poll EXCEPT ![p] = [AfterCounters(@, need) EXCEPT
                            !.pc = "select", !.out = Append(@, StatOut(poll[p].cached))]]
            /\ snapshot' = Handed(p, accepted)
            /\ onStat(accepted)
            /\ UNCHANGED <<lastJobAge, jobVars, wd, minerLogBuf, minerLogEvents>>
    /\ UNCHANGED pollRest

\* the detail applied to the snapshot of a tick whose detail query has
\* returned: main.go applies cachedDetail, which is the new detail after a
\* success; interrupt_windows.go applies the backends it got, if any
Applied(q, ok, d) ==
    IF ok THEN d ELSE IF build = "xmrig" THEN NoDetail ELSE q.cached

\* the detail query (getBackends, getStatDetail) returns: onErr on an
\* error, and onStat in either case
pollDetail(p, ok, kind, d) ==
    /\ poll[p].pc = "detail"
    /\ IF ok THEN UNCHANGED <<lastJobAge, jobVars, wd, minerLogBuf, minerLogEvents>> ELSE onErr(kind)
    /\ onStat(snapshot[p].accepted)
    /\ snapshot' = Handed(p, snapshot[p].accepted)
    /\ poll' = [poll EXCEPT ![p].pc = "select",
                            ![p].cached = IF ok /\ build = "ethminer" THEN d ELSE @,
                            ![p].fetched = IF ok THEN d ELSE @,
                            ![p].got = ok \/ @,
                            ![p].out = (IF ok THEN @ ELSE Append(@, ErrOut))
                                        \o <<StatOut(Applied(poll[p], ok, d))>>]
    /\ UNCHANGED pollRest

\* ---------------------------------------------------------- device table
\* the largest of a set of integers that are all above -1, -1 for none
MaxOf(S) == IF S = {} THEN -1 ELSE CHOOSE x \in S : \A y \in S : y <= x

\* the values of the sequence m
Range(m) == {m[i] : i \in DOMAIN m}

\* len() of the longest of the four per-device arrays of a Stat
MaxLen(s) == MaxOf({Len(s.PerGPU_KHs), Len(s.Temps), Len(s.Fans), Len(s.PerGPU_Power)})

\* needRemap of onStat for the Stat s and the device map m
needRemap(s, m) ==
    LET maxSelected == MaxOf(Range(m))
        identity == \A i \in DOMAIN m : m[i] = i - 1
    IN /\ Len(m) > 0
       /\ maxSelected >= 0
       /\ MaxLen(s) > 0
       /\ (MaxLen(s) < maxSelected + 1 \/ (~identity /\ MaxLen(s) <= Len(m)))

\* the loop over deviceMap with the device index taken for the local one
ProjectInverse(arr, m, outLen, zero) ==
    [j \in 1..outLen |-> IF j \in DOMAIN m /\ m[j] < Len(arr) THEN arr[m[j] + 1] ELSE zero]

\* one array after the loop over deviceMap: made with outLen elements that
\* hold zero, then the element at deviceIdx takes the value at localIdx,
\* for the local indexes in ascending order
Project(arr, m, outLen, zero) ==
    [j \in 1..outLen |->
        LET locals == {i \in DOMAIN m : m[i] = j - 1 /\ i <= Len(arr)}
        IN IF locals = {} THEN zero ELSE arr[MaxOf(locals)]]

\* the Stat after the remap of onStat
Remap(s, m) ==
    IF needRemap(s, m)
    THEN LET outLen == MaxOf(Range(m)) + 1
         IN [s EXCEPT !.PerGPU_KHs = Project(@, m, outLen, 0),
                      !.Temps = Project(@, m, outLen, 0),
                      !.Fans = Project(@, m, outLen, 0),
                      !.PerGPU_Power = Project(@, m, outLen, -1)]
    ELSE s

\* onStat up to statCopy: the Stat of the poller is remapped
onStatRemap ==
    /\ stat.at = "poller"
    /\ stat' = [Remap(stat, minerDeviceMap) EXCEPT !.at = "onStat"]
    /\ UNCHANGED <<confVars, minerVars, nodeVars, uiQueue, uiPc, build, cfgArgs, procMu, poll, snapshot, logVars,
                   nodeChainIssue, minerDeviceMap, deviceLabelByIndex, logSensors, statsRows>>

\* a row that takes the sensors read from the log wherever there are any
statsRowFallbackFirst(s, labels, fallback, i) ==
    LET ok == i \in DOMAIN fallback
    IN [Index |-> i,
        Name |-> IF i \in labels THEN <<"label", i>> ELSE <<"CPU", i>>,
        Hashrate |-> IF i < Len(s.PerGPU_KHs) THEN s.PerGPU_KHs[i + 1] ELSE -1,
        Temp |-> IF ok /\ fallback[i].Temp > 0 THEN fallback[i].Temp
                 ELSE IF i < Len(s.Temps) /\ s.Temps[i + 1] > 0 THEN s.Temps[i + 1] ELSE 0,
        Fan |-> IF ok /\ fallback[i].Fan > 0 THEN fallback[i].Fan
                ELSE IF i < Len(s.Fans) /\ s.Fans[i + 1] > 0 THEN s.Fans[i + 1] ELSE 0,
        Power |-> IF ok /\ fallback[i].Power >= 0 THEN fallback[i].Power
                  ELSE IF i < Len(s.PerGPU_Power) /\ s.PerGPU_Power[i + 1] >= 0
                  THEN s.PerGPU_Power[i + 1] ELSE -1]

\* the row of device index i in updateStatsTable
statsRow(s, labels, fallback, i) ==
    LET temp == IF i < Len(s.Temps) /\ s.Temps[i + 1] > 0 THEN s.Temps[i + 1] ELSE 0
        fan == IF i < Len(s.Fans) /\ s.Fans[i + 1] > 0 THEN s.Fans[i + 1] ELSE 0
        power == IF i < Len(s.PerGPU_Power) /\ s.PerGPU_Power[i + 1] >= 0
                 THEN s.PerGPU_Power[i + 1] ELSE -1
        ok == i \in DOMAIN fallback
    IN [Index |-> i,
        Name |-> IF i \in labels THEN <<"label", i>> ELSE <<"CPU", i>>,
        Hashrate |-> IF i < Len(s.PerGPU_KHs) THEN s.PerGPU_KHs[i + 1] ELSE -1,
        Temp |-> IF ok /\ temp = 0 /\ fallback[i].Temp > 0 THEN fallback[i].Temp ELSE temp,
        Fan |-> IF ok /\ fan = 0 /\ fallback[i].Fan > 0 THEN fallback[i].Fan ELSE fan,
        Power |-> IF ok /\ power < 0 /\ fallback[i].Power >= 0 THEN fallback[i].Power ELSE power]

\* the rows updateStatsTable makes, one for each index below maxCount
Rows(s, labels, fallback) ==
    LET maxIndex == MaxOf(labels \cup DOMAIN fallback)
        maxCount == MaxOf({MaxLen(s), maxIndex + 1, 0})
    IN [k \in 1..maxCount |-> statsRow(s, labels, fallback, k - 1)]

\* updateStatsTable(statCopy), run by the UI goroutine
updateStatsTable ==
    /\ stat.at = "onStat"
    /\ stat' = [stat EXCEPT !.at = "table"]
    /\ statsRows' = Rows(stat, deviceLabelByIndex, logSensors)
    /\ UNCHANGED <<confVars, minerVars, nodeVars, uiQueue, uiPc, build, cfgArgs, procMu, poll, snapshot, logVars,
                   nodeChainIssue, minerDeviceMap, deviceLabelByIndex, logSensors>>

\* ------------------------------------------------------------------- time
\* one unit of time passes
Advance ==
    /\ lastJobAge' = Older(lastJobAge, NoJobTimeout + 1)
    /\ UNCHANGED jobVars
    /\ minerStartedAge' = Older(minerStartedAge, NoJobTimeout + 1)
    /\ wd' = [s \in Sessions |->
                [wd[s] EXCEPT !.outage = Older(@, RetryWindow + 1), !.left = Less(@)]]
    /\ mtimers' = [t \in TimerIds |-> [mtimers[t] EXCEPT !.left = Less(@)]]
    /\ ntimers' = [t \in NodeTimerIds |-> [ntimers[t] EXCEPT !.left = Less(@)]]
    /\ nreset' = [r \in Resets |-> [nreset[r] EXCEPT !.left = Less(@)]]
    /\ <<lastJobAge', minerStartedAge', wd', mtimers', ntimers', nreset'>>
         # <<lastJobAge, minerStartedAge, wd, mtimers, ntimers, nreset>>
    /\ UNCHANGED <<auxVars, confVars, minerCmd, pollCancel, minerDeviceMap, mproc, watchdogCancel, watchdogRestarting,
                   cfgWatchdogEnabled, uiVars, opStopped, nodeCmd, nodeCancel, autoMining, nproc,
                   nstart, nodeStartBtn, nodeStopBtn>>

Next ==
    \/ \E enabled \in BOOLEAN, oc \in StartOutcomes : startMinerUser(enabled, oc)
    \/ stopMinerUserCancel
    \/ stopMinerUserInterrupt
    \/ \E p \in Procs : minerExits(p)
    \/ \E p \in Procs : minerWaitClear(p)
    \/ \E p \in Procs : minerWaitNotify(p)
    \/ \E t \in TimerIds : minerKillCheck(t)
    \/ \E t \in TimerIds : minerKill(t)
    \/ newJobLine(UsualJob)
    \/ \E s \in Sessions : watchdogCtxDone(s)
    \/ \E s \in Sessions : watchdogTick(s)
    \/ \E s \in Sessions : watchdogGiveUpCancel(s)
    \/ \E s \in Sessions : watchdogGiveUpInterrupt(s)
    \/ \E s \in Sessions : watchdogStop(s)
    \/ \E s \in Sessions : waitForMinerExit(s)
    \/ \E s \in Sessions : watchdogDelayCancelled(s)
    \/ \E s \in Sessions : watchdogDelayOver(s)
    \/ \E s \in Sessions : watchdogStartReturned(s)
    \/ uiStopped
    \/ \E oc \in StartOutcomes : uiRestart(oc)
    \/ nodeStartClick
    \/ \E g \in NodeStarts : nodeStartCheck(g)
    \/ \E g \in NodeStarts, oc \in NodeStartOutcomes : nodeStartSpawn(g, oc)
    \/ \E g \in NodeStarts : nodeStartRecord(g)
    \/ \E p \in NodeProcs : nodeExits(p)
    \/ \E p \in NodeProcs : nodeWaitClear(p)
    \/ \E p \in NodeProcs : nodeWaitNotify(p)
    \/ nodeStopClick
    \/ \E t \in NodeTimerIds : nodeKillCheck(t)
    \/ \E t \in NodeTimerIds : nodeKill(t)
    \/ nodeResetClick
    \/ \E r \in Resets : nodeResetBegin(r)
    \/ \E r \in Resets, wiped \in BOOLEAN : nodeResetPoll(r, wiped)
    \/ uiNodeOff
    \/ uiNodeBusy
    \/ uiNodeStart
    \/ Advance

Spec == Init /\ [][Next]_vars

\* the worker role with room for a second watchdog session: the operator
\* stops and starts again while the first session is still running
InitRace ==
    /\ xmrigFound = TRUE
    /\ nodeEnabled = FALSE
    /\ InitWith(MaxProcs, RaceSessions, MaxTimers)
    /\ build = "xmrig"
    /\ InitLog(LogCap)

NextRace ==
    \/ \E oc \in StartOutcomes : startMinerUser(TRUE, oc)
    \/ stopMinerUserCancel
    \/ stopMinerUserInterrupt
    \/ \E p \in Procs : minerExits(p)
    \/ \E p \in Procs : minerWaitClear(p)
    \/ \E p \in Procs : minerWaitNotify(p)
    \/ \E t \in TimerIds : minerKillCheck(t)
    \/ \E t \in TimerIds : minerKill(t)
    \/ \E s \in Sessions : watchdogCtxDone(s)
    \/ \E s \in Sessions : watchdogTick(s)
    \/ \E s \in Sessions : watchdogGiveUpCancel(s)
    \/ \E s \in Sessions : watchdogGiveUpInterrupt(s)
    \/ \E s \in Sessions : watchdogStop(s)
    \/ \E s \in Sessions : waitForMinerExit(s)
    \/ \E s \in Sessions : watchdogDelayCancelled(s)
    \/ \E s \in Sessions : watchdogDelayOver(s)
    \/ \E s \in Sessions : watchdogStartReturned(s)
    \/ uiStopped
    \/ \E oc \in StartOutcomes : uiRestart(oc)
    \/ Advance

SpecRace == InitRace /\ [][NextRace]_vars

\* the worker role when the operator edits the form between two starts:
\* one watchdog session, and a start stores what the form holds
ArgSets == 1..MaxArgs

InitParams ==
    /\ xmrigFound = TRUE
    /\ nodeEnabled = FALSE
    /\ InitWith(MaxProcs, MaxSessions, MaxTimers)
    /\ build = "xmrig"
    /\ InitLog(LogCap)

NextParams ==
    \/ \E args \in ArgSets, oc \in StartOutcomes : startMinerUserWith(args, TRUE, oc)
    \/ stopMinerUserCancel
    \/ stopMinerUserInterrupt
    \/ \E p \in Procs : minerExits(p)
    \/ \E p \in Procs : minerWaitClear(p)
    \/ \E p \in Procs : minerWaitNotify(p)
    \/ \E t \in TimerIds : minerKillCheck(t)
    \/ \E t \in TimerIds : minerKill(t)
    \/ \E s \in Sessions : watchdogCtxDone(s)
    \/ \E s \in Sessions : watchdogTick(s)
    \/ \E s \in Sessions : watchdogGiveUpCancel(s)
    \/ \E s \in Sessions : watchdogGiveUpInterrupt(s)
    \/ \E s \in Sessions : watchdogStop(s)
    \/ \E s \in Sessions : waitForMinerExit(s)
    \/ \E s \in Sessions : watchdogDelayCancelled(s)
    \/ \E s \in Sessions : watchdogDelayOver(s)
    \/ \E s \in Sessions : watchdogStartReturned(s)
    \/ uiStopped
    \/ \E oc \in StartOutcomes : uiRestart(oc)
    \/ Advance

SpecParams == InitParams /\ [][NextParams]_vars

\* the worker role when the pool sends no job: the operator starts the
\* worker once, with the watchdog enabled, and leaves it alone
InitQuiet ==
    /\ xmrigFound = TRUE
    /\ nodeEnabled = FALSE
    /\ InitWith(QuietProcs, MaxSessions, QuietTimers)
    /\ build = "xmrig"
    /\ InitLog(LogCap)

firstStart ==
    /\ \A s \in Sessions : wd[s].st = "free"
    /\ \E oc \in StartOutcomes : startMinerUser(TRUE, oc)

NextQuiet ==
    \/ firstStart
    \/ \E p \in Procs : minerExits(p)
    \/ \E p \in Procs : minerWaitClear(p)
    \/ \E p \in Procs : minerWaitNotify(p)
    \/ \E t \in TimerIds : minerKillCheck(t)
    \/ \E t \in TimerIds : minerKill(t)
    \/ \E s \in Sessions : watchdogTick(s)
    \/ \E s \in Sessions : watchdogGiveUpCancel(s)
    \/ \E s \in Sessions : watchdogGiveUpInterrupt(s)
    \/ \E s \in Sessions : watchdogStop(s)
    \/ \E s \in Sessions : waitForMinerExit(s)
    \/ \E s \in Sessions : watchdogDelayOver(s)
    \/ \E s \in Sessions : watchdogStartReturned(s)
    \/ uiStopped
    \/ \E oc \in StartOutcomes : uiRestart(oc)
    \/ Advance

SpecQuiet == InitQuiet /\ [][NextQuiet]_vars

\* the runs of SpecQuiet in which every goroutine that can take a step
\* takes it after a while, and time passes
FairQuiet ==
    /\ SpecQuiet
    /\ WF_vars(firstStart)
    /\ WF_vars(\E p \in Procs : minerExits(p))
    /\ WF_vars(\E p \in Procs : minerWaitClear(p))
    /\ WF_vars(\E p \in Procs : minerWaitNotify(p))
    /\ WF_vars(\E t \in TimerIds : minerKillCheck(t))
    /\ WF_vars(\E t \in TimerIds : minerKill(t))
    /\ WF_vars(\E s \in Sessions : watchdogTick(s))
    /\ WF_vars(\E s \in Sessions : watchdogGiveUpCancel(s))
    /\ WF_vars(\E s \in Sessions : watchdogGiveUpInterrupt(s))
    /\ WF_vars(\E s \in Sessions : watchdogStop(s))
    /\ WF_vars(\E s \in Sessions : waitForMinerExit(s))
    /\ WF_vars(\E s \in Sessions : watchdogDelayOver(s))
    /\ WF_vars(\E s \in Sessions : watchdogStartReturned(s))
    /\ WF_vars(uiStopped)
    /\ WF_vars(\E oc \in StartOutcomes : uiRestart(oc))
    /\ WF_vars(Advance)

\* the worker log: the operator starts the worker with the watchdog
\* disabled, its pipes and the supervisor write lines, the consumer takes
\* the events; either main() is built
InitLogging ==
    /\ xmrigFound = TRUE
    /\ nodeEnabled = FALSE
    /\ InitWith(LogProcs, MaxSessions, MaxTimers)
    /\ build \in {"xmrig", "ethminer"}
    /\ InitLog(LogLines)

NextLogging ==
    \/ \E oc \in StartOutcomes : startMinerLogging(oc)
    \/ \E p \in Procs : minerExits(p)
    \/ \E p \in Procs : minerWaitClear(p)
    \/ \E p \in Procs : minerWaitNotify(p)
    \/ \E p \in Procs : minerExitLine(p)
    \/ uiStopped
    \/ \E p \in Procs, f \in Pipes, job \in BOOLEAN : streamLines(p, f, job)
    \/ minerLogConsumer

SpecLogging == InitLogging /\ [][NextLogging]_vars

\* the poller: the operator starts the worker with the watchdog disabled,
\* the worker exits when it does, and pollStats queries it; either main()
\* is built
InitPolling ==
    /\ xmrigFound = TRUE
    /\ nodeEnabled = FALSE
    /\ InitWith(PollProcs, MaxSessions, MaxTimers)
    /\ build \in {"xmrig", "ethminer"}
    /\ InitLog(PollLogLines)

NextPolling ==
    \/ \E oc \in StartOutcomes : startMinerLogging(oc)
    \/ \E p \in Procs : minerExits(p)
    \/ \E p \in Procs : minerWaitClear(p)
    \/ \E p \in Procs : minerWaitNotify(p)
    \/ \E p \in Procs : minerExitLine(p)
    \/ uiStopped
    \/ \E p \in Procs : pollCtxDone(p)
    \/ \E p \in Procs : pollTick(p)
    \/ \E p \in Procs, ok \in BOOLEAN, kind \in ErrKinds, need \in BOOLEAN : pollSummary(p, ok, kind, need, 0)
    \/ \E p \in Procs, ok \in BOOLEAN, kind \in ErrKinds, d \in DetailResults : pollDetail(p, ok, kind, d)
    \/ minerLogConsumer

SpecPolling == InitPolling /\ [][NextPolling]_vars

\* the share counter: the operator starts the worker with the watchdog
\* disabled, the worker exits when it does, and a query of pollStats can
\* succeed while a worker process serves the API port, the summary
\* reporting any of the accepted counts; either main() is built
Serving == \E q \in Procs : mproc[q] = "running"

InitAccept ==
    /\ xmrigFound = TRUE
    /\ nodeEnabled = FALSE
    /\ InitWith(AcceptProcs, MaxSessions, MaxTimers)
    /\ build \in {"xmrig", "ethminer"}
    /\ InitLog(PollLogLines)

NextAccept ==
    \/ \E oc \in StartOutcomes : startMinerUser(FALSE, oc)
    \/ \E p \in Procs : minerExits(p)
    \/ \E p \in Procs : minerWaitClear(p)
    \/ \E p \in Procs : minerWaitNotify(p)
    \/ uiStopped
    \/ \E p \in Procs : pollCtxDone(p)
    \/ \E p \in Procs : pollTick(p)
    \/ \E p \in Procs, need \in BOOLEAN, a \in Accepts : Serving /\ pollSummary(p, TRUE, "other", need, a)
    \/ \E p \in Procs, kind \in ErrKinds, need \in BOOLEAN : ~Serving /\ pollSummary(p, FALSE, kind, need, 0)
    \/ \E p \in Procs, ok \in BOOLEAN, kind \in ErrKinds, d \in DetailResults :
            (ok => Serving) /\ pollDetail(p, ok, kind, d)

SpecAccept == InitAccept /\ [][NextAccept]_vars

\* sequences of at most n values of S
SeqsUpTo(S, n) == UNION {[1..k -> S] : k \in 0..n}

\* the device selections: device indexes, each at most once
DeviceMaps == {m \in SeqsUpTo(0..MaxDevice, MaxArray) : \A i, j \in DOMAIN m : m[i] = m[j] => i = j}

\* the remap of onStat: a Stat with any four short arrays meets any device
\* selection, then updateStatsTable shows it; no sensors from the log
InitRemap ==
    /\ xmrigFound = TRUE
    /\ nodeEnabled = FALSE
    /\ InitWorkerWith(MaxProcs, MaxSessions, MaxTimers)
    /\ InitNodeWith(MaxNodeProcs, MaxNodeStarts, MaxNodeTimers, MaxResets)
    /\ build = "xmrig"
    /\ InitLog(LogCap)
    /\ minerDeviceMap \in DeviceMaps
    /\ deviceLabelByIndex = {}
    /\ logSensors = <<>>
    /\ stat \in [at : {"poller"}, PerGPU_KHs : SeqsUpTo({0, 9}, MaxArray), Temps : SeqsUpTo({0, 50}, MaxArray),
                  Fans : SeqsUpTo({0, 40}, MaxArray), PerGPU_Power : SeqsUpTo({-1, 100}, MaxArray)]
    /\ statsRows = <<>>

NextRemap ==
    \/ onStatRemap
    \/ updateStatsTable

SpecRemap == InitRemap /\ [][NextRemap]_vars

\* the sensors a worker log line gives for a device
LogSensors == [Temp : {0, 65}, Fan : {0, 30}, Power : {0, 120}]

\* the device table: a Stat with any sensor arrays, with no device selected,
\* meets any sensors read from the log; the devices have labels or not
InitTable ==
    /\ xmrigFound = TRUE
    /\ nodeEnabled = FALSE
    /\ InitWorkerWith(MaxProcs, MaxSessions, MaxTimers)
    /\ InitNodeWith(MaxNodeProcs, MaxNodeStarts, MaxNodeTimers, MaxResets)
    /\ build \in {"xmrig", "ethminer"}
    /\ InitLog(LogCap)
    /\ minerDeviceMap = <<>>
    /\ deviceLabelByIndex \in {{}, 0..MaxDevice}
    /\ logSensors \in UNION {[D -> LogSensors] : D \in SUBSET (0..(MaxDevice - 1))}
    /\ stat \in [at : {"poller"}, PerGPU_KHs : {<<>>, <<9>>}, Temps : SeqsUpTo({0, 50}, MaxArray),
                  Fans : SeqsUpTo({0, 40}, MaxArray), PerGPU_Power : SeqsUpTo({-1, 0}, MaxArray)]
    /\ statsRows = <<>>

NextTable ==
    \/ onStatRemap
    \/ updateStatsTable

SpecTable == InitTable /\ [][NextTable]_vars

\* the job lines of the worker: two difficulty tokens, "1.23K" and "500",
\* and three heights, one of them 0
JobLines == {JobLine(d, h) : d \in {Text(123, "", "K", ""), Text(50000, "", "", "")}, h \in {0, 4242, 4243}}

\* the job state: the operator starts the worker with the watchdog
\* disabled, the worker writes job lines and exits when it does, and time
\* passes; either main() is built
InitJob ==
    /\ xmrigFound = TRUE
    /\ nodeEnabled = FALSE
    /\ InitWith(MaxProcs, MaxSessions, MaxTimers)
    /\ build \in {"xmrig", "ethminer"}
    /\ InitLog(LogCap)

NextJob ==
    \/ \E oc \in StartOutcomes : startMinerUser(FALSE, oc)
    \/ \E p \in Procs : minerExits(p)
    \/ \E p \in Procs : minerWaitClear(p)
    \/ \E p \in Procs : minerWaitNotify(p)
    \/ uiStopped
    \/ \E job \in JobLines : newJobLine(job)
    \/ Advance

SpecJob == InitJob /\ [][NextJob]_vars

\* procMu: the operator starts the worker step by step while the node is
\* started, stopped and reset; every step that takes procMu waits until
\* nobody holds it
Locks(A) == procMu = Unlocked /\ A

InitMutex ==
    /\ xmrigFound = TRUE
    /\ nodeEnabled = TRUE
    /\ InitWith(MutexProcs, MaxSessions, MaxTimers)
    /\ build = "xmrig"
    /\ InitLog(LogCap)

NextMutex ==
    \/ startMinerLock
    \/ \E kind \in Range(StartIo) : startMinerIo(kind)
    \/ startMinerIoDone
    \/ \E oc \in StartOutcomes : startMinerUnlock(oc)
    \/ \E p \in Procs : minerExits(p)
    \/ \E p \in Procs : Locks(minerWaitClear(p))
    \/ \E p \in Procs : minerWaitNotify(p)
    \/ uiStopped
    \/ nodeStartClick
    \/ \E g \in NodeStarts : Locks(nodeStartCheck(g))
    \/ \E g \in NodeStarts, oc \in NodeStartOutcomes : nodeStartSpawn(g, oc)
    \/ \E g \in NodeStarts : Locks(nodeStartRecord(g))
    \/ \E p \in NodeProcs : nodeExits(p)
    \/ \E p \in NodeProcs : Locks(nodeWaitClear(p))
    \/ \E p \in NodeProcs : nodeWaitNotify(p)
    \/ nodeResetClick
    \/ \E r \in Resets : Locks(nodeResetBegin(r))
    \/ \E r \in Resets, wiped \in BOOLEAN : Locks(nodeResetPoll(r, wiped))
    \/ uiNodeOff
    \/ uiNodeBusy
    \/ uiNodeStart

SpecMutex == InitMutex /\ [][NextMutex]_vars

\* the ring alone: newRingLogs(maxLines) for a small maxLines, then any
\* sequence of Append and Clear; appended keeps what was given to Append
\* since the last Clear
RingTexts == {Blank, Line(<<0, "api">>, 0, FALSE), Line(<<0, "exit">>, 0, FALSE)}

ringRest == <<confVars, minerVars, nodeVars, uiQueue, uiPc, build, cfgArgs, procMu, dispVars, poll, snapshot, nodeChainIssue, minerLogEvents, streams>>

InitRing ==
    /\ xmrigFound = TRUE
    /\ nodeEnabled = FALSE
    /\ InitWith(LogProcs, MaxSessions, MaxTimers)
    /\ build \in {"xmrig", "ethminer"}
    /\ \E maxLines \in 0..RingMaxLines : minerLogBuf = newRingLogs(maxLines)
    /\ minerLogEvents = <<>>
    /\ appended = <<>>

\* minerLogBuf.Append(line)
RingAppend(line) ==
    /\ Len(appended) < RingMaxAppends
    /\ minerLogBuf' = ringLogsAppend(minerLogBuf, line)
    /\ appended' = Append(appended, line)
    /\ UNCHANGED ringRest

\* minerLogBuf.Clear()
RingClear ==
    /\ minerLogBuf' = ringLogsClear(minerLogBuf)
    /\ appended' = <<>>
    /\ UNCHANGED ringRest

NextRing ==
    \/ \E line \in RingTexts : RingAppend(line)
    \/ RingClear

SpecRing == InitRing /\ [][NextRing]_vars

\* the log over a restart: a second worker process is started after the
\* first has exited, while the goroutines of the first may still be at
\* work; stdout alone is read and no line is a job line
InitRelog ==
    /\ xmrigFound = TRUE
    /\ nodeEnabled = FALSE
    /\ InitWith(RelogProcs, MaxSessions, MaxTimers)
    /\ build \in {"xmrig", "ethminer"}
    /\ InitLog(LogLines)

NextRelog ==
    \/ \E oc \in StartOutcomes : startMinerLogging(oc)
    \/ \E p \in Procs : minerExits(p)
    \/ \E p \in Procs : minerWaitClear(p)
    \/ \E p \in Procs : minerWaitNotify(p)
    \/ \E p \in Procs : minerExitLine(p)
    \/ uiStopped
    \/ \E p \in Procs : streamLines(p, "stdout", FALSE)
    \/ minerLogConsumer

SpecRelog == InitRelog /\ [][NextRelog]_vars

\* the database issue prompt: the node role with its start, exit and
\* reset, matching lines of the node log, the dialog and its two answers;
\* the forced kill and the deadline of the reset are not followed
InitIssue ==
    /\ xmrigFound = FALSE
    /\ nodeEnabled = TRUE
    /\ InitWorkerWith(LogProcs, MaxSessions, MaxTimers)
    /\ InitDisplay
    /\ InitNodeWith(IssueNodeProcs, IssueNodeStarts, IssueNodeTimers, IssueResets)
    /\ build = "xmrig"
    /\ InitLog(LogCap)

NextIssue ==
    \/ nodeStartClick
    \/ \E g \in NodeStarts : nodeStartCheck(g)
    \/ \E g \in NodeStarts, oc \in NodeStartOutcomes : nodeStartSpawn(g, oc)
    \/ \E g \in NodeStarts : nodeStartRecord(g)
    \/ \E p \in NodeProcs : nodeExits(p)
    \/ \E p \in NodeProcs : nodeWaitClear(p)
    \/ \E p \in NodeProcs : nodeWaitNotify(p)
    \/ nodeResetClick
    \/ \E r \in Resets : nodeResetBegin(r)
    \/ \E r \in Resets, wiped \in BOOLEAN : nodeResetPoll(r, wiped)
    \/ uiNodeOff
    \/ uiNodeBusy
    \/ uiNodeStart
    \/ \E fatal \in BOOLEAN : appendNodeLogIssue(fatal)
    \/ uiIssuePrompt
    \/ issueDismiss
    \/ issueAccept
    \/ IssueAdvance

SpecIssue == InitIssue /\ [][NextIssue]_vars

\* the mining service of the node: the node role started in mining mode,
\* with its starts, exits, stop and reset, and the goroutines of
\* autoStartMiningService
InitAuto ==
    /\ xmrigFound = FALSE
    /\ nodeEnabled = TRUE
    /\ InitWorkerWith(LogProcs, MaxSessions, MaxTimers)
    /\ InitDisplay
    /\ InitNodeMode(AutoNodeProcs, AutoNodeStarts, IssueNodeTimers, IssueResets, TRUE)
    /\ build = "xmrig"
    /\ InitLog(LogCap)

NextAuto ==
    \/ nodeStartClick
    \/ \E g \in NodeStarts : nodeStartCheck(g)
    \/ \E g \in NodeStarts, oc \in NodeStartOutcomes : nodeStartSpawn(g, oc)
    \/ \E g \in NodeStarts : nodeStartRecord(g)
    \/ \E p \in NodeProcs : nodeExits(p)
    \/ \E p \in NodeProcs : nodeWaitClear(p)
    \/ \E p \in NodeProcs : nodeWaitNotify(p)
    \/ nodeStopClick
    \/ nodeResetClick
    \/ \E r \in Resets : nodeResetBegin(r)
    \/ \E r \in Resets, wiped \in BOOLEAN : nodeResetPoll(r, wiped)
    \/ uiNodeOff
    \/ uiNodeBusy
    \/ uiNodeStart
    \/ \E p \in NodeProcs, ready, ok \in BOOLEAN : autoStartMiningCheck(p, ready, ok)
    \/ \E p \in NodeProcs : autoStartMiningDone(p)

SpecAuto == InitAuto /\ [][NextAuto]_vars

\* ------------------------------------------------------------------ claims
LiveWorkers == {p \in Procs : mproc[p] = "running"}
LiveNodes == {p \in NodeProcs : NodeLive(p)}

\* C1: in every reachable state at most one spawned and not-yet-exited
\* child process exists per role (worker, node)
C1_OneLivePerRole ==
    /\ Cardinality(LiveWorkers) <= 1
    /\ Cardinality(LiveNodes) <= 1

\* this step is the function the watchdog queued, and it called
\* startMinerWithOrigin: the session gets a result that is not ctx.Err()
WatchdogStartCalled ==
    \E s \in Sessions : wd[s].res = "none" /\ wd'[s].res \notin {"none", "cancelled"}

\* this step is a call of startNodeAsync or of startNodeWithSettings
NodeStartCalled == nodeStartClick \/ uiNodeStart \/ \E g \in NodeStarts : nodeStartCheck(g)

SessionsCancelled ==
    /\ watchdogCancel = 0
    /\ \A s \in Sessions : wd[s].st = "live" => wd[s].cancelled

\* C3: an operator stop cancels the watchdog session before it sends the
\* interrupt, and from its return until the next operator start the
\* watchdog never starts the worker
C3_StopCancelsWatchdog ==
    [][ /\ stopMinerUserInterrupt => SessionsCancelled
        /\ opStopped => SessionsCancelled /\ ~WatchdogStartCalled
        /\ (opStopped /\ opStopped') => LiveWorkers' \subseteq LiveWorkers
      ]_vars

\* C3 witness: the stop came while a restart cycle was between its stop
\* and its start; the queued start ran after it and started nothing
C3_Witness ==
    /\ opStopped
    /\ \E s \in Sessions : At(s, "await") /\ wd[s].res = "cancelled"

\* a restart cycle of session s begins in this step
AttemptBegins(s) == wd'[s].restartCount > wd[s].restartCount

\* C4 (as the code has it): without job events a restart attempt begins at
\* every tick at which the worker has been silent for more than the no-job
\* timeout since it was last started, no attempt is in flight and the
\* outage has not lasted longer than the retry window, so there may be
\* more than one; at the first such tick after the retry window the
\* session gives up, and it begins no attempt from then on
C4_AttemptsUntilWindow ==
    [][ \A s \in 1..MaxSessions :
          /\ AttemptBegins(s)
                => /\ Stale
                   /\ OutageAge(s) <= RetryWindow
                   /\ ~watchdogRestarting
          /\ (watchdogTick(s) /\ Stale /\ ~WindowReached(s) /\ ~watchdogRestarting)
                => AttemptBegins(s) /\ wd'[s].pc = "stop"
          /\ (watchdogTick(s) /\ Stale /\ WindowReached(s))
                => ~AttemptBegins(s) /\ wd'[s].pc = "giveup"
          /\ wd[s].pc \in {"giveup", "giveupstop"}
                => ~AttemptBegins(s) /\ wd'[s].pc \in {"giveup", "giveupstop", "none"}
      ]_vars

\* C4 witness: the session gives up after its second restart attempt
C4_Witness == \E s \in Sessions : At(s, "giveup") /\ wd[s].restartCount = 2

\* C4 as stated: without job events there is exactly one restart attempt
C4_ExactlyOneAttempt == \A s \in Sessions : wd[s].restartCount <= 1

\* C5: a tick that finds a job it has not seen, or a worker that has not
\* been silent for longer than the no-job timeout, stops and starts
\* nothing, and the tick that finds the job clears the outage tracking; a
\* restart or a give-up begins only when the worker has been silent for
\* longer than the timeout
C5_JobInTimeNoRestart ==
    [][ \A s \in 1..MaxSessions :
          /\ (watchdogTick(s) /\ (FreshJob(s) \/ ~Stale))
                => /\ wd'[s].pc = "select"
                   /\ ~AttemptBegins(s)
                   /\ UNCHANGED <<supVars, watchdogCancel, watchdogRestarting, uiVars>>
          /\ (watchdogTick(s) /\ FreshJob(s))
                => wd'[s].outage = -1 /\ wd'[s].restartCount = 0 /\ wd'[s].seen
          /\ (At(s, "select") /\ wd'[s].pc \in {"stop", "giveup"})
                => Stale /\ ~FreshJob(s)
      ]_vars

\* C5 witness: the session has seen a job that is younger than the
\* timeout and goes on monitoring, with no outage
C5_Witness ==
    \E s \in Sessions :
        /\ At(s, "select") /\ wd[s].seen /\ wd[s].outage = -1
        /\ lastJobAge >= 0 /\ lastJobAge <= NoJobTimeout
        /\ minerRunning

\* a restart attempt of session s is in flight
InFlight(s) == wd[s].st = "live" /\ wd[s].pc \in {"stop", "wait", "delay", "await"}

\* C6: at most one restart attempt is in flight
C6_OneAttemptInFlight == Cardinality({s \in Sessions : InFlight(s)}) <= 1

\* a session that has not been cancelled
ActiveSession == \E s \in Sessions : wd[s].st = "live" /\ ~wd[s].cancelled

\* C7: a session is active only if the last operator start had the
\* watchdog enabled, and none is active after an operator stop
C7_ActiveOnlyIfEnabled == ActiveSession => cfgWatchdogEnabled /\ ~opStopped

\* what a forced-kill goroutine may do in one step: after its sleep it
\* goes on to kill if the handle is still the process it was started for,
\* else it ends; its kill ends that process and no other
KillStep(timers, timersN, handle, procs, procsN, live) ==
    \A t \in DOMAIN timers :
        /\ (timers[t].st = "sleep" /\ timersN[t].st = "kill")
              => timers[t].left = 0 /\ handle = timers[t].cmd
        /\ (timers[t].st = "sleep" /\ timersN[t].st = "gone")
              => timers[t].left = 0 /\ handle # timers[t].cmd
        /\ (timers[t].st = "kill" /\ timersN[t].st = "gone")
              => /\ procsN[timers[t].cmd] \notin live
                 /\ \A q \in DOMAIN procs : q # timers[t].cmd => procsN[q] = procs[q]
        /\ timers[t].st = "gone" => timersN[t].st = "gone"
        /\ timers[t].st = "kill" => timersN[t].st \in {"kill", "gone"}

\* C8 (as the code has it): a Stop interrupts the process and starts one
\* forced-kill goroutine; when the grace period is over that goroutine
\* kills the process, once, if the handle of the role still refers to it,
\* and does nothing if the handle has been cleared
C8_KillIfStillHandle ==
    [][ /\ KillStep(mtimers, mtimers', minerCmd, mproc, mproc', {"running"})
        /\ KillStep(ntimers, ntimers', nodeCmd, nproc, nproc', {"spawned", "running"})
      ]_vars

\* C8 witness: the grace period of a process that is still running is
\* over and its forced kill is about to be issued
C8_Witness ==
    \/ \E t \in TimerIds : mtimers[t].st = "kill" /\ mproc[mtimers[t].cmd] = "running"
    \/ \E t \in NodeTimerIds : ntimers[t].st = "kill" /\ nproc[ntimers[t].cmd] = "running"

\* C8 as stated: no forced kill is decided for a process that has exited
C8_NoKillAfterExit ==
    [][ /\ \A t \in TimerIds : (mtimers[t].st = "sleep" /\ mtimers'[t].st = "kill")
              => mproc[mtimers[t].cmd] = "running"
        /\ \A t \in NodeTimerIds : (ntimers[t].st = "sleep" /\ ntimers'[t].st = "kill")
              => nproc[ntimers[t].cmd] = "running"
      ]_vars

\* a forced-kill goroutine started for the process of the handle is pending
MinerStopPending == \E t \in TimerIds : mtimers[t].st \in {"sleep", "kill"} /\ mtimers[t].cmd = minerCmd
NodeStopPending == \E t \in NodeTimerIds : ntimers[t].st \in {"sleep", "kill"} /\ ntimers[t].cmd = nodeCmd

\* C9: a second Stop while the first waits for the exit starts no second
\* forced-kill goroutine, and a Stop without a handle changes nothing
C9_SecondStopNoOp ==
    [][ /\ (nodeStopClick /\ nodeRunning /\ NodeStopPending) => UNCHANGED ntimers
        /\ (stopMinerUserInterrupt /\ minerRunning /\ MinerStopPending) => UNCHANGED mtimers
        /\ (stopMinerUserCancel /\ ~minerRunning) => UNCHANGED wdVars
      ]_vars

\* C10: without job events an armed session ends after a while, by the
\* stop of its give-up, with no session registered; and with no session
\* that is not cancelled nothing starts the worker but the operator
C10_SessionEnds ==
    /\ \A s \in 1..MaxSessions : (wd[s].st = "live") ~> (wd[s] = Ended /\ watchdogCancel = 0)
    /\ [][ \A s \in 1..MaxSessions :
            (wd[s].st = "live" /\ wd'[s].st = "ended") => watchdogGiveUpInterrupt(s) ]_vars
    /\ [][ ~ActiveSession => (firstStart \/ LiveWorkers' \subseteq LiveWorkers) ]_vars

\* C10 witness: the session has given up and ended, and the worker it
\* stopped is gone
C10_Witness ==
    /\ \E s \in Sessions : wd[s] = Ended
    /\ watchdogCancel = 0
    /\ ~minerRunning
    /\ \E p \in Procs : mproc[p] = "done"

\* C11: a start whose cmd.Start fails returns the error and leaves the role
\* idle: no handle, no poller, no wait goroutine and no watchdog session is
\* added, so the handle test of a later start sees what it saw before
C11_SpawnFailureIdle ==
    [][ /\ (~minerRunning /\ \E e \in BOOLEAN : startMinerUser(e, "spawn"))
            => /\ StartResult("spawn") = "error"
               /\ UNCHANGED <<minerCmd, pollCancel, mproc, poll, watchdogCancel, wd>>
               /\ ~minerRunning'
        /\ \A s \in Sessions :
            (~minerRunning /\ ~wd[s].cancelled /\ uiQueue # <<>> /\ Head(uiQueue) = <<"restart", s>>
                /\ uiRestart("spawn"))
            => /\ wd'[s].res = "error"
               /\ UNCHANGED <<minerCmd, pollCancel, mproc, poll, watchdogCancel>>
               /\ ~minerRunning'
        /\ \A g \in NodeStarts :
            nodeStartSpawn(g, "spawn")
            => /\ NodeStartResult("spawn") \in {"error", "nil"}
               /\ ~nodeRunning => NodeStartResult("spawn") = "error"
               /\ UNCHANGED <<nodeCmd, nproc, ntimers>>
               /\ nstart'[g] = GoneStart
               /\ nodeCancel' = 0
      ]_vars

\* C11 witness: a start of the worker has stored its start time and no
\* process was ever spawned: its cmd.Start failed, and the role is idle
C11_Witness ==
    /\ xmrigFound
    /\ minerStartedAge = 0
    /\ \A p \in Procs : mproc[p] = "free"
    /\ ~minerRunning
    /\ pollCancel = 0
    /\ watchdogCancel = 0

\* the functions the wait goroutines of the worker have queued and the UI
\* goroutine has not run yet
StoppedQueued == {i \in DOMAIN uiQueue : uiQueue[i][1] = "stopped"}

\* C12: whenever procMu is free a poll cancel function is registered if and
\* only if a worker handle exists, and it is the one of that process; a
\* wait goroutine publishes the stopped notification after it has cleared
\* both
C12_HandleAndPollerTogether ==
    /\ (pollCancel # 0) <=> (minerCmd # 0)
    /\ pollCancel = minerCmd
    /\ \A p \in Procs : mproc[p] \in {"reaped", "done", "logged"} => minerCmd # p /\ pollCancel # p
    /\ Cardinality(StoppedQueued) <= Cardinality({p \in Procs : mproc[p] \in {"done", "logged"}})

\* C12 witness: the worker has exited, its wait goroutine has cleared the
\* handle and the poller and has not yet published the notification
C12_Witness ==
    /\ \E p \in Procs : mproc[p] = "reaped"
    /\ minerCmd = 0
    /\ pollCancel = 0
    /\ StoppedQueued = {}
    /\ uiRunning

\* the functions of kind k in the queue of the UI goroutine
Queued(q, k) == {i \in DOMAIN q : q[i][1] = k}

\* C13: a worker process is spawned only by a start of the operator or by
\* the start a watchdog session that is not cancelled has queued, and a node
\* process only by a goroutine that Start node or a confirmed reset has
\* started; the wait goroutines start nothing
C13_NoRestartBySupervisor ==
    [][ /\ ~(LiveWorkers' \subseteq LiveWorkers)
            => \/ \E e \in BOOLEAN, oc \in StartOutcomes : startMinerUser(e, oc)
               \/ /\ \E oc \in StartOutcomes : uiRestart(oc)
                  /\ \E s \in Sessions : /\ Head(uiQueue) = <<"restart", s>>
                                          /\ wd[s].st = "live" /\ ~wd[s].cancelled
        /\ Cardinality(Queued(uiQueue', "restart")) > Cardinality(Queued(uiQueue, "restart"))
            => \E s \in Sessions : watchdogDelayOver(s) /\ ~wd[s].cancelled
        /\ ~(LiveNodes' \subseteq LiveNodes)
            => \E g \in NodeStarts : nodeStartSpawn(g, "ok")
        /\ (\E g \in NodeStarts : nstart[g].st = "free" /\ nstart'[g].st # "free")
            => nodeStartClick \/ uiNodeStart
        /\ Cardinality(Queued(uiQueue', "nodeStart")) > Cardinality(Queued(uiQueue, "nodeStart"))
            => \E r \in Resets : nodeResetPoll(r, TRUE)
        /\ (\E r \in Resets : nreset[r].st = "free" /\ nreset'[r].st # "free")
            => nodeResetClick
      ]_vars

\* C13 witness: a process has exited with no stop pending, its wait
\* goroutine has finished, and nothing runs and nothing is queued
C13_Witness ==
    \/ /\ \E p \in Procs : mproc[p] = "done"
       /\ \A t \in TimerIds : mtimers[t].st = "free"
       /\ \A s \in Sessions : wd[s].st = "free"
       /\ LiveWorkers = {} /\ ~minerRunning /\ ~uiRunning /\ uiQueue = <<>>
    \/ /\ \E p \in NodeProcs : nproc[p] = "done"
       /\ \A t \in NodeTimerIds : ntimers[t].st = "free"
       /\ \A r \in Resets : nreset[r].st = "free"
       /\ LiveNodes = {} /\ ~nodeRunning /\ nodeStartBtn /\ uiQueue = <<>>

\* the poller of process p hands a snapshot or an error to its callback
Delivers(p) == poll'[p].out # poll[p].out /\ poll'[p].out # <<>>

\* C14: once the wait goroutine has cleared the handle and cancelled the
\* poll context of a process, its poller hands no snapshot and no error to
\* the callbacks
C14_NoDeliveryAfterCancel ==
    [][ \A p \in Procs : Delivers(p) => ~PollCtxDone(p) ]_vars

\* C15: a tick whose summary query fails hands one error and no snapshot
\* to the callbacks and the poller goes on to the next tick; a tick whose
\* summary query succeeds hands over exactly one snapshot, and when its
\* detail query fails or is skipped the snapshot carries the detail of the
\* last detail query that succeeded
C15_OneSnapshotPerTick ==
    [][ \A p \in Procs :
          /\ (\E kind \in ErrKinds, need \in BOOLEAN, a \in Accepts : pollSummary(p, FALSE, kind, need, a))
                => poll'[p].out = <<ErrOut>> /\ poll'[p].pc = "select"
          /\ (poll'[p].pc = "select" /\ \E need \in BOOLEAN, a \in Accepts : pollSummary(p, TRUE, "other", need, a))
                => poll'[p].out = <<StatOut(poll[p].fetched)>>
          /\ (\E kind \in ErrKinds, d \in DetailResults : pollDetail(p, FALSE, kind, d))
                => poll'[p].out = <<ErrOut, StatOut(poll[p].fetched)>> /\ poll'[p].pc = "select"
          /\ (\E d \in DetailResults : pollDetail(p, TRUE, "other", d) /\ poll'[p].fetched = d)
                => poll'[p].out = <<StatOut(poll'[p].fetched)>> /\ poll'[p].pc = "select"
      ]_vars

\* C16: a tick whose summary query succeeds while no detail has been
\* fetched issues the detail query, and once a detail has been fetched a
\* detail query is issued only on the 3rd, 4th or 5th tick after the
\* previous detail query
IssuesDetail(p) == poll[p].pc = "summary" /\ poll'[p].pc = "detail"
C16_DetailCadence ==
    [][ \A p \in Procs :
          /\ (~poll[p].got /\ \E need \in BOOLEAN, a \in Accepts : pollSummary(p, TRUE, "other", need, a))
                => IssuesDetail(p)
          /\ (poll[p].got /\ IssuesDetail(p))
                => poll[p].gap \in DetailEvery..DifficultyEvery
      ]_vars

\* C17: every poll error is handed to the error callback; while the worker
\* is waiting for its first snapshot (waitingForStats) an error that is a
\* timeout or a refused connection leaves the worker log as it is, and once
\* a snapshot has arrived the error text is appended to the log
ErrStep(p, kind) ==
    \/ \E need \in BOOLEAN, a \in Accepts : pollSummary(p, FALSE, kind, need, a)
    \/ \E d \in DetailResults : pollDetail(p, FALSE, kind, d)
C17_QuietUntilFirstSnapshot ==
    [][ \A p \in Procs : \A kind \in ErrKinds :
          ErrStep(p, kind) =>
            /\ \E i \in DOMAIN poll'[p].out : poll'[p].out[i] = ErrOut
            /\ (waitingForStats /\ kind \in {"i/o timeout", "connection refused"})
                  => UNCHANGED <<minerLogBuf, minerLogEvents>>
            /\ ~waitingForStats
                  => /\ minerLogBuf' = LogAppend(MinerLog, ApiText).buf
                     /\ minerLogEvents' = LogAppend(MinerLog, ApiText).events
      ]_vars

\* C18: after N appends to a ring of capacity C = len(buf) with no Clear in
\* between, Len() is min(N, C), Snapshot() is the last min(N, C) appended
\* lines in the order of their insertion, and the length is at most C
C18_RingLog ==
    LET N == Len(appended)
        C == ringLogsCap(minerLogBuf)
        m == Min(N, C)
    IN /\ ringLogsLen(minerLogBuf) = m
       /\ ringLogsSnapshot(minerLogBuf) = SubSeq(appended, N - m + 1, N)
       /\ Len(ringLogsSnapshot(minerLogBuf)) <= C

\* more lines than the ring holds have been appended, the ring has wrapped
\* more than once and holds lines that differ
C18_Witness ==
    /\ ringLogsCap(minerLogBuf) = 2
    /\ Len(appended) = 5
    /\ minerLogBuf.start = 1
    /\ ringLogsSnapshot(minerLogBuf) = <<Line(<<0, "api">>, 0, FALSE), Line(<<0, "exit">>, 0, FALSE)>>

\* the channel of log events is full: a send would block
QueueFull == Len(minerLogEvents) = ChanCap

\* the line that streamLines hands to appendMinerLog next
NextLine(p, f, job) == Line(<<p, f>>, streams[<<p, f>>] + 1, job)

\* C19 (as the spec has it): a line can always be ingested, and a line
\* ingested while the channel is full is dropped (ring and channel stay as
\* they are) while lastJobAt is stored if it is a job line
C19_FullQueueDropsLine ==
    /\ [](\A p \in Procs, f \in Pipes, job \in BOOLEAN :
            (mproc[p] # "free" /\ streams[<<p, f>>] < MaxLines) => ENABLED streamLines(p, f, job))
    /\ [][ \A p \in Procs, f \in Pipes, job \in BOOLEAN :
            (QueueFull /\ streamLines(p, f, job))
              => /\ UNCHANGED <<minerLogBuf, minerLogEvents>>
                 /\ job => lastJobAge' = 0
        ]_vars

\* C19 (as the code has it): a line can always be ingested; while the
\* channel is full the channel stays as it is and lastJobAt is stored for a
\* job line; main.go drops the line, interrupt_windows.go has appended it
\* to the ring itself and drops only the event that refreshes the view
C19_IngestNeverBlocks ==
    /\ [](\A p \in Procs, f \in Pipes, job \in BOOLEAN :
            (mproc[p] # "free" /\ streams[<<p, f>>] < MaxLines) => ENABLED streamLines(p, f, job))
    /\ [][ \A p \in Procs, f \in Pipes, job \in BOOLEAN :
            (QueueFull /\ streamLines(p, f, job))
              => /\ UNCHANGED minerLogEvents
                 /\ minerLogBuf' = IF build = "xmrig"
                                   THEN ringLogsAppend(minerLogBuf, NextLine(p, f, job))
                                   ELSE minerLogBuf
                 /\ job => /\ lastJobAge' = 0
                           /\ \A s \in Sessions : ~wd'[s].seen
        ]_vars

\* main.go: nothing has been taken from the channel since the start filled
\* it, and a job line of stdout has been ingested: lastJobAt is stored and
\* the line is neither in the channel nor in the ring
C19_Witness ==
    /\ build = "ethminer"
    /\ minerLogEvents = <<LogEvent(TRUE, NoLine), LogEvent(FALSE, StartingText[1])>>
    /\ ringLogsLen(minerLogBuf) = 0
    /\ streams[<<1, "stdout">>] = 1
    /\ streams[<<1, "stderr">>] = 0
    /\ lastJobAge = 0

\* the lines of the ring, oldest first
RingNow == ringLogsSnapshot(minerLogBuf)

\* line l was read from a pipe of a worker process
FromPipe(l) == l[1][1] # 0

\* C20: two lines of the same pipe of the same process that are both in
\* the ring are there in the order in which the pipe produced them
C20_StreamOrder ==
    \A i \in DOMAIN RingNow : \A j \in DOMAIN RingNow :
        (i < j /\ FromPipe(RingNow[i]) /\ RingNow[i][1] = RingNow[j][1])
            => RingNow[i][2] < RingNow[j][2]

\* the ring holds the two lines of stdout with a line of stderr between
\* them, after the lines the supervisor wrote at the start were pushed out
C20_Witness ==
    /\ Len(RingNow) = 3
    /\ RingNow[1][1] = <<1, "stdout">> /\ RingNow[1][2] = 1
    /\ RingNow[2][1] = <<1, "stderr">>
    /\ RingNow[3][1] = <<1, "stdout">> /\ RingNow[3][2] = 2

\* the reset of the last start has reached the ring: interrupt_windows.go
\* clears the ring in resetMinerLog, main.go when the consumer takes the
\* reset event, if the channel had room for it
ResetInEffect ==
    build = "xmrig" \/ \A i \in DOMAIN minerLogEvents : ~minerLogEvents[i].reset

\* C21: once the second worker process has been started and the reset of
\* that start has taken effect, the ring holds no line of the first
\* process, and no exit notice as long as the second process has not
\* written its own
C21_StartClearsLog ==
    (mproc[RelogProcs] # "free" /\ ResetInEffect)
        => /\ \A i \in DOMAIN RingNow : RingNow[i][1][1] # 1
           /\ mproc[RelogProcs] # "logged"
                 => \A i \in DOMAIN RingNow : RingNow[i] # ExitText[2]

\* this step raises the prompt
PromptRaised == nodeChainIssue'.open > nodeChainIssue.open

\* a reset accepted from a prompt is in progress
AcceptedResetRuns ==
    nodeChainIssue.accepted # 0 /\ nreset[nodeChainIssue.accepted].st \in {"begin", "poll"}

\* C22: no prompt is raised while one is open or while a reset accepted
\* from a prompt is in progress
C22_OnePromptPerIncident ==
    [][ PromptRaised => (nodeChainIssue.open = 0 /\ ~AcceptedResetRuns) ]_vars

\* the matching lines of the last IssueWindow steps, the one ingested now
\* included
InWindow == 1 + Cardinality({i \in 1..2 : nodeChainIssue.prev[i] # -1
                                           /\ nodeChainIssue.prev[i] <= IssueWindow})

\* C23: with no prompt open, in a run in which no reset has been started,
\* a fatal line raises the prompt, and a matching line that is not fatal
\* raises it exactly when it is at least the third matching line of the
\* window that ends with it
C23_PromptOnThirdInWindow ==
    [][ (nodeChainIssue.open = 0 /\ \A r \in Resets : nreset[r].st = "free")
          => /\ appendNodeLogIssue(TRUE) => PromptRaised
             /\ (appendNodeLogIssue(FALSE) /\ ~appendNodeLogIssue(TRUE))
                   => (PromptRaised <=> InWindow >= IssueThreshold)
      ]_vars

\* C24: a snapshot handed to onStat raises "accepted increased"
\* (hasNewAccept) exactly when its accepted count is greater than that of
\* the snapshot the same pollStats handed over before, 0 before its first
HandsStat(p) == Delivers(p) /\ poll'[p].out[Len(poll'[p].out)].kind = "stat"
C24_AcceptedIncreased ==
    [][ \A p \in Procs : HandsStat(p) =>
            (hasNewAccept(snapshot'[p].prev) <=> snapshot'[p].prev > snapshot[p].prev) ]_vars

\* C25: in every row of the device table, temperature, fan and power are
\* those of the poller's Stat when it reports them (temperature > 0,
\* fan > 0, power >= 0) and those of the sensors read from the log for that
\* device otherwise; a reported value is never replaced
Reported(arr, i, least) == i < Len(arr) /\ arr[i + 1] >= least
MergedFrom(arr, i, least, row, known, fallback, unknown) ==
    IF Reported(arr, i, least) THEN row = arr[i + 1]
    ELSE IF known THEN row = fallback
    ELSE row = unknown
C25_MergedTable ==
    stat.at = "table" =>
      /\ \A i \in 0..MaxDevice : (i < MaxLen(stat) \/ i \in DOMAIN logSensors) => i + 1 \in DOMAIN statsRows
      /\ \A k \in DOMAIN statsRows :
            LET i == k - 1
                row == statsRows[k]
                known == i \in DOMAIN logSensors
            IN /\ row.Index = i
               /\ MergedFrom(stat.Temps, i, 1, row.Temp, known, logSensors[i].Temp, 0)
               /\ MergedFrom(stat.Fans, i, 1, row.Fan, known, logSensors[i].Fan, 0)
               /\ MergedFrom(stat.PerGPU_Power, i, 0, row.Power, known, logSensors[i].Power, -1)
C25_Witness ==
    /\ stat.at = "table"
    /\ Len(stat.Temps) > 0 /\ stat.Temps[1] = 0
    /\ 0 \in DOMAIN logSensors /\ logSensors[0].Temp = 65
    /\ statsRows[1].Temp = 65
    /\ Len(stat.Fans) > 1 /\ stat.Fans[2] = 40
    /\ 1 \in DOMAIN logSensors /\ logSensors[1].Fan = 30
    /\ statsRows[2].Fan = 40

\* C26: when the four arrays of the Stat are shorter than max(m) + 1 for the
\* device selection m, each array has max(m) + 1 elements after the remap,
\* holds at index m[i] the value reported at local index i, and holds the
\* unknown value at every index that is not in m
Reprojected(in, out, m, unknown) ==
    /\ Len(out) = MaxOf(Range(m)) + 1
    /\ \A i \in DOMAIN m : i <= Len(in) => out[m[i] + 1] = in[i]
    /\ \A j \in DOMAIN out : (j - 1) \notin Range(m) => out[j] = unknown
AllReprojected ==
    /\ Reprojected(stat.PerGPU_KHs, stat'.PerGPU_KHs, minerDeviceMap, 0)
    /\ Reprojected(stat.Temps, stat'.Temps, minerDeviceMap, 0)
    /\ Reprojected(stat.Fans, stat'.Fans, minerDeviceMap, 0)
    /\ Reprojected(stat.PerGPU_Power, stat'.PerGPU_Power, minerDeviceMap, -1)
ShortArrays == Len(minerDeviceMap) > 0 /\ MaxLen(stat) < MaxOf(Range(minerDeviceMap)) + 1
C26_Reprojected ==
    [][ (onStatRemap /\ ShortArrays) => AllReprojected ]_vars
\* C26, amended: the same when at least one of the four arrays has an
\* element; a Stat whose four arrays are all empty is left as it is
C26_ReprojectedNonEmpty ==
    [][ (onStatRemap /\ ShortArrays) =>
            IF MaxLen(stat) > 0 THEN AllReprojected
            ELSE stat' = [stat EXCEPT !.at = "onStat"] ]_vars
C26_Witness ==
    /\ stat.at = "onStat"
    /\ minerDeviceMap = <<2, 0>>
    /\ stat.Temps = <<0, 0, 50>>
    /\ stat.Fans = <<0, 0, 40>>
    /\ stat.PerGPU_Power = <<100, -1, 100>>
    /\ stat.PerGPU_KHs = <<0, 0, 9>>

\* C27: ingesting the job line with difficulty token 1.23K and height 4242
\* sets the current block to 4242, the current difficulty to the formatted
\* text "1.23 KH" and the last-job timestamp to the time of the ingest
C27_JobLineState ==
    [][ newJobLine(UsualJob) =>
            /\ currentJobBlock' = 4242
            /\ jobDifficulty' = formatDifficulty(1230)
            /\ lastJobAge' = 0 ]_vars

\* C28: whoever holds procMu is in no blocking call (network dial,
\* privilege-grant helper, spawn of the child, sleep)
C28_NoBlockingUnderMutex == procMu.holder # "none" => procMu.io = "none"

\* C29: a tick of the watchdog that sees a job it has not seen sets the
\* restart count to 0 and clears the outage start, whatever the count was;
\* the first tick of a later outage then starts the outage at that tick
C29_FreshJobResets ==
    [][ \A s \in Sessions :
          /\ (watchdogTick(s) /\ FreshJob(s)) => (wd'[s].restartCount = 0 /\ wd'[s].outage = -1)
          /\ (watchdogTick(s) /\ wd[s].recovered /\ wd[s].outage = -1 /\ wd'[s].outage # -1)
                => (wd'[s].outage = 0 /\ wd'[s].restartCount <= 1) ]_vars
C29_Witness ==
    \E s \in Sessions : wd[s].recovered /\ wd[s].outage = 0 /\ wd[s].restartCount = 1 /\ wd[s].pc = "stop"

\* C30: a tick of the watchdog at which the time since the last job, or
\* since the start when there is none, is at most the no-job timeout clears
\* the outage start and goes on monitoring: the session stays in its loop
\* and neither stops nor starts the worker
InTimeTick(s) ==
    /\ watchdogTick(s)
    /\ wd'[s].outage = -1
    /\ wd'[s].pc = "select"
    /\ UNCHANGED <<supVars, watchdogCancel, watchdogRestarting, uiVars>>
C30_InTimeClearsOutage ==
    \A s \in Sessions : (At(s, "select") /\ ~Stale) => ENABLED InTimeTick(s)

\* C31: when the start a restart cycle asked for returns an error, the
\* session logs "Restart failed", clears the restarting flag and goes on
\* monitoring with its outage start and restart count as they were; at a
\* later tick that finds the worker silent for longer than the timeout
\* again it begins the next attempt while the retry window is not
\* exceeded, and gives up once it is
C31_FailedRestartRetried ==
    [][ \A s \in 1..MaxSessions :
          /\ (watchdogStartReturned(s) /\ wd[s].res = "error")
                => /\ wd'[s] = [wd[s] EXCEPT !.pc = "select", !.res = "none", !.log = "error"]
                   /\ wd'[s].st = "live"
                   /\ ~watchdogRestarting'
          /\ (wd[s].log = "error" /\ AttemptBegins(s))
                => Stale /\ ~WindowReached(s)
          /\ (watchdogTick(s) /\ wd[s].log = "error" /\ ~FreshJob(s) /\ Stale
                /\ ~watchdogRestarting /\ ~WindowReached(s))
                => AttemptBegins(s) /\ wd'[s].pc = "stop"
          /\ (watchdogTick(s) /\ wd[s].log = "error" /\ ~FreshJob(s) /\ Stale /\ WindowReached(s))
                => ~AttemptBegins(s) /\ wd'[s].pc = "giveup"
      ]_vars

\* C31 witness: the start of the first attempt failed, the session has
\* logged it and monitors, the worker has been silent for longer than the
\* timeout again and the retry window is not exceeded
C31_Witness ==
    \E s \in Sessions :
        /\ At(s, "select") /\ ~wd[s].cancelled
        /\ wd[s].log = "error" /\ wd[s].restartCount = 1
        /\ ~watchdogRestarting
        /\ ~minerRunning
        /\ ~FreshJob(s) /\ Stale /\ ~WindowReached(s)

\* the steps of a restart cycle of session s come in their order: the wait
\* ends when no handle is left, the 25 s are over or the context is
\* cancelled, the delay then runs to its end, and only a session that is
\* not cancelled goes on to the start
CycleInOrder(s) ==
    /\ wd[s].pc = "stop" => wd'[s].pc \in {"stop", "wait"}
    /\ wd[s].pc = "wait" => wd'[s].pc \in {"wait", "delay"}
    /\ wd[s].pc = "delay" => wd'[s].pc \in {"delay", "await", "none"}
    /\ wd[s].pc = "await" => wd'[s].pc \in {"await", "select"}
    /\ (wd[s].pc = "wait" /\ wd'[s].pc = "delay")
          => (~minerRunning \/ wd[s].left = 0 \/ wd[s].cancelled) /\ wd'[s].left = RestartDelay
    /\ (wd[s].pc = "delay" /\ wd'[s].pc = "await") => wd[s].left = 0 /\ ~wd[s].cancelled
    /\ (wd[s].res = "none" /\ wd'[s].res \notin {"none", "cancelled"})
          => wd[s].pc = "await" /\ ~wd[s].cancelled
    /\ wd'[s].pc = "await" => wd[s].pc \in {"delay", "await"}

\* the start session s asked for has started the worker in this step
StartedBy(s) == wd[s].res = "none" /\ wd'[s].res = "ok"

\* C32: a restart cycle stops the worker, waits until no handle is left
\* or 25 s are over, waits the restart delay and then starts the worker,
\* in this order; and the start is made with what cfg held when the
\* operator last started the worker
C32_CycleOrderAndParameters ==
    [][ \A s \in 1..MaxSessions :
          /\ CycleInOrder(s)
          /\ StartedBy(s) => wd'[s].used = wd[s].args
      ]_vars

\* the worker has been started in this step
WorkerStarted == minerCmd = 0 /\ minerCmd' # 0

\* C33: a start of the worker sets the device map to the selection cfg
\* holds, and while there is no worker handle the device map is empty
C33_DeviceMapOnlyWithHandle ==
    [][ /\ WorkerStarted => minerDeviceMap' = CPUAffinity(cfgArgs')
        /\ ~minerRunning' => minerDeviceMap' = <<>>
      ]_vars

\* what a forced-kill goroutine armed for process timers[t].cmd does to the
\* processes of its role: it goes on to kill only if the handle refers to
\* that process, it ends without a kill if the handle is nil or refers to
\* another process, and its kill leaves every other process as it is
ActsOnArmed(timers, timersN, handle, procs, procsN) ==
    \A t \in DOMAIN timers :
        /\ (timers[t].st = "sleep" /\ timersN[t].st = "kill") => handle = timers[t].cmd
        /\ (timers[t].st = "sleep" /\ timers[t].left = 0 /\ timersN[t] # timers[t]
                /\ handle # timers[t].cmd) => timersN[t].st = "gone" /\ procsN = procs
        /\ (timers[t].st = "kill" /\ timersN[t].st = "gone")
              => \A q \in DOMAIN procs : q # timers[t].cmd => procsN[q] = procs[q]

\* C34 (as the code has it): when the grace period is over a forced-kill
\* goroutine kills only if the handle of its role still refers to the
\* process it was started for; if the handle has been cleared or refers to
\* a process started in the meantime it issues no kill; and its kill goes
\* to the process it was started for and to no other
C34_KillOnlyArmedProcess ==
    [][ /\ ActsOnArmed(mtimers, mtimers', minerCmd, mproc, mproc')
        /\ ActsOnArmed(ntimers, ntimers', nodeCmd, nproc, nproc')
      ]_vars

\* C34 witness: the grace period of a stop is over, the process it was for
\* is gone and the handle refers to a process started in the meantime,
\* which is running
C34_Witness ==
    \/ \E t \in TimerIds :
          /\ mtimers[t].st = "sleep" /\ mtimers[t].left = 0
          /\ minerCmd \notin {0, mtimers[t].cmd} /\ mproc[minerCmd] = "running"
          /\ mproc[mtimers[t].cmd] = "done"
    \/ \E t \in NodeTimerIds :
          /\ ntimers[t].st = "sleep" /\ ntimers[t].left = 0
          /\ nodeCmd \notin {0, ntimers[t].cmd} /\ nproc[nodeCmd] = "running"
          /\ nproc[ntimers[t].cmd] = "done"

\* C34 as stated: besides, once the process a forced-kill goroutine was
\* started for has exited, the goroutine issues no kill
C34_NoKillOnceExited ==
    [][ /\ ActsOnArmed(mtimers, mtimers', minerCmd, mproc, mproc')
        /\ ActsOnArmed(ntimers, ntimers', nodeCmd, nproc, nproc')
        /\ \A t \in TimerIds :
              (mtimers[t].st = "sleep" /\ mproc[mtimers[t].cmd] # "running")
                  => mtimers'[t].st # "kill"
        /\ \A t \in NodeTimerIds :
              (ntimers[t].st = "sleep" /\ ~NodeLive(ntimers[t].cmd))
                  => ntimers'[t].st # "kill"
      ]_vars

\* session s calls stopMinerWithOrigin in this step: for a restart cycle,
\* or with the origin of the operator when it gives up
CallsStop(s) ==
    \/ wd[s].pc = "stop" /\ wd'[s].pc = "wait"
    \/ wd[s].pc = "giveup" /\ wd'[s].pc = "giveupstop"

\* C35: a session whose context an operator stop has cancelled calls
\* stopMinerWithOrigin only when there is no worker handle, so it never
\* interrupts a worker, and in particular not the one a later start of
\* the operator has started
C35_CancelledSessionStopsNothing ==
    [][ \A s \in 1..RaceSessions :
          (wd[s].cancelled /\ CallsStop(s)) => ~minerRunning
      ]_vars

\* C36: the critical section of a wait goroutine clears the handle and
\* cancels the context of its role only if they are those of the process
\* that has exited: a handle that refers to another process stays, and
\* no other process is ended by the cancel
C36_ExitClearsOwnHandleOnly ==
    [][ /\ \A p \in Procs : minerWaitClear(p)
              => /\ minerCmd \in {0, p} /\ pollCancel \in {0, p}
                 /\ \A q \in Procs \ {p} : mproc'[q] = mproc[q]
        /\ \A p \in NodeProcs : nodeWaitClear(p)
              => /\ nodeCmd \in {0, p} /\ nodeCancel \in {0, p}
                 /\ \A q \in NodeProcs \ {p} : nproc'[q] = nproc[q]
      ]_vars

\* every notification of a wait goroutine has been queued and delivered
NotificationsDelivered ==
    /\ uiQueue = <<>>
    /\ uiPc = "idle"
    /\ \A p \in Procs : mproc[p] # "reaped"

\* C37: once every queued notification has been delivered, the published
\* state of the worker is "running" exactly when minerCmd holds a process,
\* and a running worker still waits for its first statistics or has them:
\* setRunningUI(false) of an exited process is never applied after
\* setRunningUI(true) of a later start
C37_PublishedStateAgrees ==
    NotificationsDelivered => (uiRunning <=> minerRunning)

\* the reset accepted from the prompt has ended
AcceptedResetEnded ==
    nodeChainIssue.accepted # 0 /\ nreset[nodeChainIssue.accepted] = GoneReset

\* C38: when the reset accepted from the prompt ends without the wipe,
\* nodeChainIssueDialogShown is false again, and once that reset has ended
\* a fatal line ingested with no prompt open raises the prompt
C38_FailedResetReleasesPrompt ==
    [][ /\ \A r \in Resets : (nodeChainIssue.accepted = r /\ nodeResetPoll(r, FALSE))
                                  => ~nodeChainIssue'.shown
        /\ (AcceptedResetEnded /\ nodeChainIssue.open = 0 /\ appendNodeLogIssue(TRUE))
              => PromptRaised
      ]_vars

\* the goroutine of autoStartMiningService launched for node process p
Auto(p) == autoMining.g[p]

\* this step is a turn of the loop of goroutine p that calls rpcMinerStart
CallsMinerStart(p) ==
    Auto(p)'.last # Auto(p).last /\ Auto(p)'.last \in {"started", "refused"}

\* C39: rpcMinerStart is called only in a turn whose check passed and that
\* follows a turn whose check passed; a failed check leaves the streak at
\* 0; the node process a call reaches has not had its mining service
\* started by an earlier call, and neither the context of the node the
\* goroutine was launched for nor the one it was given is cancelled
C39_MiningStartedOncePerSession ==
    [][ \A p \in NodeProcs :
          /\ CallsMinerStart(p)
                => /\ Auto(p).last = "ready" /\ Auto(p).readyStreak = ReadyStreak - 1
                   /\ autoMining.served[Lowest(NodeServing)] = 0
                   /\ p \notin autoMining.done /\ Auto(p).ctx \notin autoMining.done
          /\ (Auto(p)'.last # Auto(p).last /\ Auto(p)'.last = "failed")
                => Auto(p)'.readyStreak = 0
      ]_vars
====
